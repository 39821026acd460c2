---------------------------- MODULE MCStorefront ----------------------------
(***************************************************************************)
(* Instances of Storefront for TLC: one product for sale and one new, one  *)
(* category listed, and a question that nobody has answered, or a shop     *)
(* that has been in use, with an entry in every table.                     *)
(***************************************************************************)
EXTENDS Storefront, TLC

CONSTANTS Pad, Brakes, Asker, Fitter, Corolla, Why

Lists == {<<>>, <<TRUE>>, <<FALSE, TRUE>>}

WhyIs(status) ==
  questions = [q \in Questions |-> IF q # Why THEN NoQuestion
                 ELSE [status |-> status, author |-> Asker, views |-> 0]]

New ==
  /\ CatalogInit({Pad}, {Brakes})
  /\ WhyIs("open")
  /\ answers = {} /\ reviews = {} /\ wishes = {} /\ cart = {}

Bought == [user |-> Asker, product |-> Pad, request |-> 0, blind |-> FALSE]

\* Rows of earlier requests, which have number 0.
Used ==
  /\ products = [p \in Products |-> [state |-> IF p = Pad THEN "live" ELSE "none",
       stock |-> IF p = Pad THEN MaxStock ELSE 0, categories |-> IF p = Pad THEN {Brakes} ELSE {}]]
  /\ categories = [c \in Categories |-> [state |-> "live", level |-> IF c = Brakes THEN 0 ELSE 1,
       parent |-> IF c = Brakes THEN None ELSE Brakes]]
  /\ images = {[product |-> Pad, primary |-> TRUE, place |-> 1, request |-> 0, blind |-> FALSE]}
  /\ vehicles = {[car |-> Corolla, request |-> 0]}
  /\ links = {Pad} \X vehicles
  /\ pc = [s \in Sessions |-> "idle"] /\ job = [s \in Sessions |-> None]
  /\ serving = [s \in Sessions |-> 0]
  /\ requests = 0 /\ together = {} /\ crashes = 0
  /\ WhyIs("answered")
  /\ answers = {[question |-> Why, user |-> Fitter, accepted |-> FALSE, request |-> 0]}
  /\ wishes = {Bought}
  /\ reviews = {[user |-> Asker, product |-> Pad, request |-> 0, blind |-> FALSE, verified |-> TRUE]}
  /\ cart = {[user |-> Asker, product |-> Pad, request |-> 0, blind |-> FALSE, quantity |-> 1]}

MCSpec == (New \/ Used) /\ [][Next]_vars

Interchangeable == Permutations(Sessions)
=============================================================================
