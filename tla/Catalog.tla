------------------------------ MODULE Catalog ------------------------------
(***************************************************************************)
(* The catalogue that administrators and vendors edit: products with their *)
(* categories, images and stock, the category tree, and the vehicles a     *)
(* product fits (product_service.go, category_service.go,                  *)
(* vehicle_compatibility_service.go, their repositories and handlers).     *)
(*                                                                         *)
(* A request is a row of statements of which only the replacement of       *)
(* images is one transaction.  A row that is found absent is inserted by a *)
(* later statement; a form saves the whole row it read, and a Save of a    *)
(* row deleted meanwhile inserts it again.  Tags are set as categories     *)
(* are, and names, prices and notes change nothing here: they are left     *)
(* out.  What else moves stock is module Inventory's.                      *)
(***************************************************************************)
EXTENDS Integers, FiniteSets, Sequences

CONSTANTS
  Sessions,      \* the goroutines that serve requests
  Products,
  Categories,
  Cars,          \* make, model, years... of a vehicle, as FindOrCreate compares them
  ImageLists,    \* the image lists requests carry: sequences of "is it primary?"
  MaxStock,      \* bound: stock
  MaxRequests,   \* bound: requests
  MaxCrashes,    \* bound: failed statements and stopped processes
  None

ASSUME CatalogConstants ==
  /\ None \notin Categories
  /\ ImageLists \subseteq Seq(BOOLEAN)
  /\ MaxStock \in Nat /\ MaxRequests \in Nat /\ MaxCrashes \in Nat

VARIABLES
  products,    \* product rows, with the categories in product_categories
  categories,  \* category rows
  images,      \* product_images: rows not deleted
  vehicles,    \* vehicle_compatibilities
  links,       \* product_vehicle_compatibilities
  pc, job,     \* per session: the next statement, and the values its request holds
  serving,     \* per session: the number of its request, 0 when it has none
  requests,    \* requests so far
  together,    \* pairs of requests that have been in progress at the same time
  crashes

rows == <<products, categories, images, vehicles, links>>
sessions == <<pc, job, serving, requests, together, crashes>>

State == {"none", "live", "deleted"}
ProductRow == [state : State, stock : 0 .. MaxStock, categories : SUBSET Categories]
CategoryRow == [state : State, parent : Categories \cup {None}, level : Nat]
ImageRow == [product : Products, primary : BOOLEAN, place : Nat,
             request : Nat, blind : BOOLEAN]
VehicleRow == [car : Cars, request : Nat]

CatalogTypeOK ==
  /\ products \in [Products -> ProductRow]
  /\ categories \in [Categories -> CategoryRow]
  /\ images \subseteq ImageRow
  /\ vehicles \subseteq VehicleRow
  /\ links \subseteq Products \X vehicles
  /\ serving \in [Sessions -> 0 .. requests]
  /\ \A s \in Sessions : serving[s] = 0 <=> pc[s] = "idle"
  /\ requests \in 0 .. MaxRequests
  /\ \A pair \in together : pair \subseteq 1 .. requests /\ Cardinality(pair) = 2
  /\ crashes \in 0 .. MaxCrashes

Live(table) == {x \in DOMAIN table : table[x].state = "live"}
Stored(table) == {x \in DOMAIN table : table[x].state # "none"}

-----------------------------------------------------------------------------
(* Requests. *)

Arrives(s) ==
  /\ serving[s] = 0
  /\ requests < MaxRequests
  /\ requests' = requests + 1
  /\ together' = together \cup
       {{requests + 1, serving[t]} : t \in {t \in Sessions : serving[t] # 0}}
  /\ UNCHANGED crashes

\* A request whose first statement is done; step is the next one.
Begin(s, step, values) ==
  /\ Arrives(s)
  /\ serving' = [serving EXCEPT ![s] = requests + 1]
  /\ pc' = [pc EXCEPT ![s] = step]
  /\ job' = [job EXCEPT ![s] = values]

\* A request of one statement.
AtOnce(s) == Arrives(s) /\ UNCHANGED <<serving, pc, job>>

At(s, step) == pc[s] = step

Go(s, step, values) ==
  /\ pc' = [pc EXCEPT ![s] = step]
  /\ job' = [job EXCEPT ![s] = values]
  /\ UNCHANGED <<serving, requests, together, crashes>>

Finish(s) ==
  /\ serving' = [serving EXCEPT ![s] = 0]
  /\ pc' = [pc EXCEPT ![s] = "idle"]
  /\ job' = [job EXCEPT ![s] = None]
  /\ UNCHANGED <<requests, together, crashes>>

\* A statement fails and the handler returns, or the process stops: what is
\* committed stays, and an open transaction is rolled back.
Abort(s) ==
  /\ serving[s] # 0
  /\ crashes < MaxCrashes
  /\ crashes' = crashes + 1
  /\ serving' = [serving EXCEPT ![s] = 0]
  /\ pc' = [pc EXCEPT ![s] = "idle"]
  /\ job' = [job EXCEPT ![s] = None]
  /\ UNCHANGED <<rows, requests, together>>

-----------------------------------------------------------------------------
(* Categories. *)

\* The parent is looked up for its level; a deleted one counts for nothing.
LevelUnder(parent) ==
  IF parent \in Live(categories) THEN categories[parent].level + 1 ELSE 0

PostCategory(s, c, parent) ==
  /\ c \notin Stored(categories)
  /\ Begin(s, "insert category", [category |-> c,
       row |-> [state |-> "live", parent |-> parent, level |-> LevelUnder(parent)]])
  /\ UNCHANGED rows

InsertCategory(s) ==
  /\ At(s, "insert category")
  /\ LET c == job[s].category IN
       categories' = IF c \in Stored(categories) THEN categories  \* the slug is taken
                     ELSE [categories EXCEPT ![c] = job[s].row]
  /\ Finish(s)
  /\ UNCHANGED <<products, images, vehicles, links>>

Children(c) == {d \in Live(categories) : categories[d].parent = c}

PutCategory(s, c, parent) ==
  /\ c \in Live(categories)
  /\ Begin(s, "save category", [category |-> c, children |-> Children(c),
       row |-> [categories[c] EXCEPT !.parent = IF parent = None THEN @ ELSE parent]])
  /\ UNCHANGED rows

\* Save writes the row and, for the children read with it, their parent_id.
SaveCategory(s) ==
  /\ At(s, "save category")
  /\ LET c == job[s].category
         saved == [categories EXCEPT ![c] = job[s].row] IN
       categories' = [d \in Categories |->
         IF d \in job[s].children THEN [saved[d] EXCEPT !.parent = c] ELSE saved[d]]
  /\ Finish(s)
  /\ UNCHANGED <<products, images, vehicles, links>>

RemoveCategory(s, c) ==
  /\ c \in Live(categories)
  /\ AtOnce(s)
  /\ categories' = [categories EXCEPT ![c].state = "deleted"]
  /\ UNCHANGED <<products, images, vehicles, links>>

-----------------------------------------------------------------------------
(* Products: creation, one or a batch, and the product form. *)

\* What follows the row of product p: its categories if the request names any,
\* the next product of a batch, then the initial stock of those created.
AfterRow(values) ==
  IF values.categories # {} THEN "clear categories"
  ELSE IF values.todo # {} THEN "insert product" ELSE "stock"

PostProducts(s, items, named) ==
  /\ items # {} /\ items \cap Stored(products) = {}
  /\ Begin(s, "insert product", [todo |-> items, product |-> None, created |-> {},
       categories |-> named, named |-> named, form |-> FALSE])
  /\ UNCHANGED rows

\* An insert that fails (a SKU that is taken) is reported; the rest go on.
InsertProduct(s, p, taken) ==
  /\ At(s, "insert product")
  /\ p \in job[s].todo
  /\ LET j == [job[s] EXCEPT !.todo = @ \ {p}]
         done == [j EXCEPT !.product = p, !.created = @ \cup {p}] IN
       IF taken \/ p \in Stored(products)
       THEN /\ Go(s, IF j.todo = {} THEN "stock" ELSE "insert product", j)
            /\ UNCHANGED products
       ELSE /\ Go(s, AfterRow(done), done)
            /\ products' = [products EXCEPT
                 ![p] = [state |-> "live", stock |-> 0, categories |-> {}]]
  /\ UNCHANGED <<categories, images, vehicles, links>>

\* SetCategories deletes, then inserts one by one; its errors are ignored.
AfterCategories(values) ==
  IF values.form THEN "form stock"
  ELSE IF values.todo # {} THEN "insert product" ELSE "stock"

ClearCategories(s) ==
  /\ At(s, "clear categories")
  /\ products' = [products EXCEPT ![job[s].product].categories = {}]
  /\ Go(s, IF job[s].categories = {} THEN AfterCategories(job[s]) ELSE "add category",
        job[s])
  /\ UNCHANGED <<categories, images, vehicles, links>>

AddCategory(s, c) ==
  /\ At(s, "add category")
  /\ c \in job[s].categories
  /\ LET p == job[s].product
         left == IF c \in products[p].categories THEN {}  \* duplicate key: it gives up
                 ELSE job[s].categories \ {c}
         j == [job[s] EXCEPT !.categories = left] IN
       /\ products' = [products EXCEPT ![p].categories = @ \cup {c}]
       /\ IF left # {} THEN Go(s, "add category", j)
          ELSE Go(s, AfterCategories(j), [j EXCEPT !.categories = j.named])
  /\ UNCHANGED <<categories, images, vehicles, links>>

Adjusted(p, delta) ==
  IF products[p].stock + delta \in 0 .. MaxStock
  THEN [products EXCEPT ![p].stock = @ + delta] ELSE products

\* The initial stock of each product created is an adjustment of its own.
InitialStock(s, p, units) ==
  /\ At(s, "stock")
  /\ IF job[s].created = {} THEN Finish(s) /\ UNCHANGED products
     ELSE /\ p \in job[s].created
          /\ products' = IF p \in Live(products) THEN Adjusted(p, units) ELSE products
          /\ Go(s, "stock", [job[s] EXCEPT !.created = @ \ {p}])
  /\ UNCHANGED <<categories, images, vehicles, links>>

\* The form reads the product with its categories and images.  given are the
\* categories it carries, or None; list the images, or None.
PutProduct(s, p, given, stock, list) ==
  /\ p \in Live(products)
  /\ Begin(s, "save product", [product |-> p, row |-> products[p], given |-> given,
       delta |-> stock - products[p].stock, list |-> list])
  /\ UNCHANGED rows

\* Save writes every column, inserts the row again if it was deleted, and adds
\* the categories read with it.
SavedProduct(stored, row) ==
  [row EXCEPT !.categories = stored.categories \cup row.categories]

SaveProduct(s) ==
  /\ At(s, "save product")
  /\ LET j == job[s]
         named == IF j.given = None THEN {} ELSE j.given
         values == [product |-> j.product, form |-> TRUE, delta |-> j.delta,
                    list |-> j.list, categories |-> named, named |-> named, todo |-> {}] IN
       /\ products' = [products EXCEPT ![j.product] = SavedProduct(@, j.row)]
       /\ Go(s, IF j.given = None THEN "form stock" ELSE "clear categories", values)
  /\ UNCHANGED <<categories, images, vehicles, links>>

ImagesOf(p) == {i \in images : i.product = p}

\* The stock field is the difference to the stock that was read; then the images.
FormStock(s) ==
  /\ At(s, "form stock")
  /\ LET p == job[s].product
         refused == p \notin Live(products)
                    \/ products[p].stock + job[s].delta \notin 0 .. MaxStock IN
       /\ products' = IF refused THEN products ELSE Adjusted(p, job[s].delta)
       /\ IF job[s].list = None \/ (job[s].delta # 0 /\ refused) THEN Finish(s)
          ELSE Go(s, "replace images", [product |-> p, list |-> job[s].list])
  /\ UNCHANGED <<categories, images, vehicles, links>>

RemoveProduct(s, p) ==
  /\ p \in Live(products)
  /\ AtOnce(s)
  /\ products' = [products EXCEPT ![p].state = "deleted"]
  /\ UNCHANGED <<categories, images, vehicles, links>>

\* Orders and adjustments move stock while requests are in progress.
StockMoves(p, units) ==
  /\ p \in Live(products) /\ units # products[p].stock
  /\ requests < MaxRequests /\ requests' = requests + 1
  /\ products' = [products EXCEPT ![p].stock = units]
  /\ UNCHANGED <<categories, images, vehicles, links, pc, job, serving, together, crashes>>

-----------------------------------------------------------------------------
(* Images. *)

NewImage(s, p, list, n, blind) ==
  [product |-> p, primary |-> list[n], place |-> n, request |-> serving[s], blind |-> blind]

\* The transaction deletes the images it sees: those inserted meanwhile stay.
ReplaceSees(s) ==
  /\ At(s, "replace images")
  /\ IF job[s].product \in Live(products)
     THEN Go(s, "commit images", [product |-> job[s].product, list |-> job[s].list,
                                  seen |-> ImagesOf(job[s].product)])
     ELSE Finish(s)
  /\ UNCHANGED rows

Replaced(s) ==
  LET j == job[s] IN
    {i \in images : \A old \in j.seen : <<i.request, i.place>> # <<old.request, old.place>>}
      \cup {NewImage(s, j.product, j.list, n, FALSE) : n \in DOMAIN j.list}

ReplaceCommits(s) ==
  /\ At(s, "commit images")
  /\ images' = Replaced(s)
  /\ Finish(s)
  /\ UNCHANGED <<products, categories, vehicles, links>>

\* Mutant: only the first image of the list is looked at.
FirstIsPrimary(list) == list[1]

HasPrimary(list) == \E n \in DOMAIN list : list[n]

PostImages(s, p, list) ==
  /\ p \in Live(products) /\ list # <<>>
  /\ Begin(s, IF HasPrimary(list) THEN "unset primary" ELSE "insert image",
           [product |-> p, list |-> list, next |-> 1, blind |-> FALSE])
  /\ UNCHANGED rows

Demoted(p) == {[i EXCEPT !.primary = i.primary /\ i.product # p] : i \in images}

\* The error of UnsetPrimaryImages is ignored: the new images come all the same.
UnsetPrimary(s, fails) ==
  /\ At(s, "unset primary")
  /\ images' = IF fails THEN images ELSE Demoted(job[s].product)
  /\ Go(s, "insert image", [job[s] EXCEPT !.blind = fails])
  /\ UNCHANGED <<products, categories, vehicles, links>>

InsertImage(s) ==
  /\ At(s, "insert image")
  /\ LET j == job[s] IN
       /\ images' = images \cup {NewImage(s, j.product, j.list, j.next, j.blind)}
       /\ IF j.next = Len(j.list) THEN Finish(s)
          ELSE Go(s, "insert image", [j EXCEPT !.next = @ + 1])
  /\ UNCHANGED <<products, categories, vehicles, links>>

RemoveImage(s, i) ==
  /\ i \in images
  /\ AtOnce(s)
  /\ images' = images \ {i}
  /\ UNCHANGED <<products, categories, vehicles, links>>

-----------------------------------------------------------------------------
(* Vehicles and the products that fit them. *)

\* Both endpoints end in FindOrCreate; one of them links product to what it found.
PostVehicle(s, car) ==
  /\ Begin(s, "find vehicle", [product |-> None, car |-> car])
  /\ UNCHANGED rows

\* The first of the request's items: a vehicle of the catalogue, or one to be found.
PostCompatibility(s, p, car, v) ==
  /\ p \in Live(products)
  /\ \/ car = None /\ v \in vehicles /\ Begin(s, "find link", [product |-> p, car |-> None,
                                                              vehicle |-> v])
     \/ car \in Cars /\ v = None /\ Begin(s, "find vehicle", [product |-> p, car |-> car])
  /\ UNCHANGED rows

Matches(car) == {v \in vehicles : v.car = car}

Linking(s, v) ==
  IF job[s].product = None THEN Finish(s)
  ELSE Go(s, "find link", [product |-> job[s].product, car |-> job[s].car, vehicle |-> v])

FindVehicle(s) ==
  /\ At(s, "find vehicle")
  /\ \/ \E v \in Matches(job[s].car) : Linking(s, v)
     \/ Matches(job[s].car) = {} /\ Go(s, "create vehicle", job[s])
  /\ UNCHANGED rows

CreateVehicle(s) ==
  /\ At(s, "create vehicle")
  /\ LET v == [car |-> job[s].car, request |-> serving[s]] IN
       vehicles' = vehicles \cup {v} /\ Linking(s, v)
  /\ UNCHANGED <<products, categories, images, links>>

\* The end of a request's list, or its next item; the product is not looked at again.
Linked(s) ==
  \/ Finish(s)
  \/ /\ job[s].car = None
     /\ \E v \in vehicles :
          Go(s, "find link", [product |-> job[s].product, car |-> None, vehicle |-> v])
  \/ /\ job[s].car # None
     /\ \E car \in Cars : Go(s, "find vehicle", [product |-> job[s].product, car |-> car])

FindLink(s) ==
  /\ At(s, "find link")
  /\ IF <<job[s].product, job[s].vehicle>> \in links THEN Linked(s)
     ELSE Go(s, "link", job[s])
  /\ UNCHANGED rows

\* A link that has come meanwhile is a duplicate key, and the request fails.
LinkProduct(s) ==
  /\ At(s, "link")
  /\ links' = links \cup {<<job[s].product, job[s].vehicle>>}
  /\ IF <<job[s].product, job[s].vehicle>> \in links THEN Finish(s) ELSE Linked(s)
  /\ UNCHANGED <<products, categories, images, vehicles>>

-----------------------------------------------------------------------------
CatalogRequest(s) ==
  \/ \E c \in Categories, parent \in Stored(categories) \cup {None} :
       PostCategory(s, c, parent) \/ PutCategory(s, c, parent)
  \/ \E c \in Categories : RemoveCategory(s, c)
  \/ \E items \in SUBSET Products, named \in SUBSET Stored(categories) :
       PostProducts(s, items, named)
  \/ \E p \in Products, given \in {None} \cup SUBSET Stored(categories),
        stock \in 0 .. MaxStock, list \in {None} \cup ImageLists :
       PutProduct(s, p, given, stock, list)
  \/ \E p \in Products : RemoveProduct(s, p)
  \/ \E p \in Products, list \in ImageLists : PostImages(s, p, list)
  \/ \E i \in images : RemoveImage(s, i)
  \/ \E car \in Cars : PostVehicle(s, car)
  \/ \E p \in Products, car \in Cars \cup {None}, v \in vehicles \cup {None} :
       PostCompatibility(s, p, car, v)

CatalogStep(s) ==
  \/ InsertCategory(s) \/ SaveCategory(s)
  \/ \E p \in Products, taken \in BOOLEAN : InsertProduct(s, p, taken)
  \/ ClearCategories(s) \/ \E c \in Categories : AddCategory(s, c)
  \/ \E p \in Products, units \in 0 .. MaxStock : InitialStock(s, p, units)
  \/ SaveProduct(s) \/ FormStock(s) \/ ReplaceSees(s) \/ ReplaceCommits(s)
  \/ \E fails \in BOOLEAN : UnsetPrimary(s, fails)
  \/ InsertImage(s)
  \/ FindVehicle(s) \/ CreateVehicle(s) \/ FindLink(s) \/ LinkProduct(s)
  \/ Abort(s)

CatalogNext ==
  \/ \E s \in Sessions : CatalogRequest(s) \/ CatalogStep(s)
  \/ \E p \in Products, units \in 0 .. MaxStock : StockMoves(p, units)

\* A catalogue in use: some products and categories are there, the others come.
CatalogInit(stocked, listed) ==
  /\ products = [p \in Products |->
       [state |-> IF p \in stocked THEN "live" ELSE "none",
        stock |-> IF p \in stocked THEN MaxStock ELSE 0, categories |-> {}]]
  /\ categories = [c \in Categories |->
       [state |-> IF c \in listed THEN "live" ELSE "none", parent |-> None, level |-> 0]]
  /\ images = {} /\ vehicles = {} /\ links = {}
  /\ pc = [s \in Sessions |-> "idle"] /\ job = [s \in Sessions |-> None]
  /\ serving = [s \in Sessions |-> 0]
  /\ requests = 0 /\ together = {} /\ crashes = 0

-----------------------------------------------------------------------------
\* Two rows that a check was to keep from being two are no accident of one request:
\* the requests that made them were in progress at the same time.
Overlapped(a, b) == {a.request, b.request} \in together

\* AddCompatibilities "creates catalog entries (deduped)": two entries of one vehicle
\* come from requests that overlapped.
VehiclesAreFound ==
  \A v, w \in vehicles : v.car = w.car /\ v # w => Overlapped(v, w)

\* "If any image has IsPrimary true, other images for the product are unset as
\* primary": two primary images come from one list, from requests that overlapped, or
\* from one whose UPDATE failed unnoticed.
OnePrimary ==
  \A i, k \in images :
    i.product = k.product /\ i.primary /\ k.primary /\ i.request # k.request
      => Overlapped(i, k) \/ i.blind \/ k.blind
=============================================================================
