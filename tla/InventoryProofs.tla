-------------------------- MODULE InventoryProofs --------------------------
(***************************************************************************)
(* What holds of Inventory for any number of sessions, products, orders    *)
(* and users, and any carts and quantities: proofs for TLAPS.              *)
(***************************************************************************)
EXTENDS Inventory, FiniteSetTheorems, TLAPS

\* The history variables, wherever an action leaves them alone.
USE DEF history

-----------------------------------------------------------------------------
(* Types. *)

\* A session that works on a line has one, an order that is being written has lines,
\* and so has an order that exists: without this, the Head of a list of lines would
\* have no type.
SessionShape(s) ==
  /\ pc[s] = "check" => tx[s].kind = "order"
  /\ pc[s] = "ordersave" => tx[s].kind = "cancel"
  /\ pc[s] \in {"ordersave", "read", "save", "rowsave"} => tx[s].todo # <<>>
  /\ tx[s].order # None => tx[s].kind \in {"order", "cancel"}
  /\ pc[s] \in {"read", "save", "commit"} /\ tx[s].kind = "order"
       => tx[s].lines # <<>>
  /\ tx[s].kind = "cancel"
       => tx[s].order \in Orders /\ orders[tx[s].order].lines # <<>>

Shape ==
  /\ \A s \in Sessions : SessionShape(s)
  /\ \A o \in Orders : orders[o].status # "none" => orders[o].lines # <<>>

TypeInv == TypeOK /\ Shape

\* The blank row is a row.
LEMMA BlankRowType == BlankRow \in Row
  BY DEF BlankRow, Row

\* A session between requests has a record of the right type.
LEMMA IdleTxType == IdleTx \in Tx
  BY BlankRowType DEF IdleTx, Tx, AllKinds

\* The fields of a session's record have their types.
LEMMA SessionTypes ==
  ASSUME TypeInv, NEW s \in Sessions
  PROVE  /\ tx[s] \in Tx
         /\ tx[s].kind \in AllKinds \cup {"none"}
         /\ tx[s].user \in Users \cup {None}
         /\ tx[s].order \in Orders \cup {None}
         /\ tx[s].todo \in Seq(Line)
         /\ tx[s].lines \in Seq(Line)
         /\ tx[s].row \in Row
         /\ tx[s].work \in [Products -> Row]
         /\ tx[s].entries \in [Products -> Seq(Movement)]
  BY DEF TypeInv, TypeOK, Tx

\* A session that works on a line works on a product, by an integer delta.
LEMMA LineTypes ==
  ASSUME TypeInv, NEW s \in Sessions, tx[s].todo # <<>>
  PROVE  /\ Head(tx[s].todo) \in Line
         /\ Head(tx[s].todo).qty \in Int
         /\ Tail(tx[s].todo) \in Seq(Line)
         /\ Target(s) \in Products
         /\ Delta(s) \in Int
<1>1. tx[s].todo \in Seq(Line)
  BY SessionTypes
<1>2. Head(tx[s].todo) \in Line /\ Tail(tx[s].todo) \in Seq(Line)
  BY <1>1
<1> QED
  BY <1>2 DEF Line, Target, Delta

\* What a First returns is a row, written by the transaction or committed.
LEMMA ViewType ==
  ASSUME TypeInv, NEW s \in Sessions, NEW p \in Products
  PROVE  View(s, p) \in Row
  BY SessionTypes DEF View, TypeInv, TypeOK

\* Replacing one session's record keeps the type of tx.
LEMMA TxUpdate ==
  ASSUME TypeInv, NEW s \in Sessions, NEW rec \in Tx, tx' = [tx EXCEPT ![s] = rec]
  PROVE  tx' \in [Sessions -> Tx]
  BY DEF TypeInv, TypeOK

\* What handleThreshold makes of a row is a row; the quantity stays what it was.
LEMMA HandleThresholdType ==
  ASSUME NEW row \in Row
  PROVE  /\ HandleThreshold(row) \in Row
         /\ HandleThreshold(row).stock = row.stock
         /\ HandleThreshold(row).cycle \in Nat
         /\ HandleThreshold(row).notified \in BOOLEAN
<1>1. IsLow(row) \in BOOLEAN
  BY DEF IsLow
<1>2. row.cycle \in Nat /\ row.cycle + 1 \in Nat
  BY DEF Row
<1> QED
  BY <1>1, <1>2 DEF HandleThreshold, Row

\* handleThreshold's goroutine keeps the type of alerts.
LEMMA SpawnType ==
  ASSUME TypeInv, NEW p \in Products, NEW row \in Row, NEW who \in {"api", "worker"},
         SpawnAlert(p, row, who)
  PROVE  alerts' \subseteq [product : Products, cycle : Nat, next : Nat \ {0},
                            by : {"api", "worker"}]
<1>1. row.cycle + 1 \in Nat
  BY DEF Row
<1> QED
  BY <1>1 DEF SpawnAlert, SpawnFor, TypeInv, TypeOK

\* When one session moves and the orders stay, only its own shape has to be looked at.
LEMMA ShapeOfOne ==
  ASSUME TypeInv, NEW s \in Sessions, SessionShape(s)', orders' = orders,
         \A t \in Sessions \ {s} : tx'[t] = tx[t] /\ pc'[t] = pc[t]
  PROVE  Shape'
<1>1. \A t \in Sessions \ {s} : SessionShape(t)'
  BY DEF TypeInv, Shape, SessionShape
<1>2. \A t \in Sessions : SessionShape(t)'
  BY <1>1
<1> QED
  BY <1>2 DEF TypeInv, Shape

\* The initial state has its types.
LEMMA InitTypes == Init => TypeInv
<1> SUFFICES ASSUME Init PROVE TypeInv
  OBVIOUS
<1>1. products \in [Products -> Row]
  BY ConstantsAssumption DEF Init, Row
<1>2. cart \in [Users -> Seq(Line)]
  BY ConstantsAssumption DEF Init
<1>3. tx \in [Sessions -> Tx]
  BY IdleTxType DEF Init
<1>4. scan \in [todo : SUBSET Products, rows : [Products -> Row]]
  BY BlankRowType DEF Init, NoScan
<1>5. orders \in [Orders -> [status : OrderStatus \cup {"none"}, lines : Seq(Line)]]
  BY DEF Init, NoOrder
<1>6. TypeOK
  BY <1>1, <1>2, <1>3, <1>4, <1>5 DEF Init, TypeOK
<1>7. Shape
  BY DEF Init, Shape, SessionShape, IdleTx, NoOrder
<1> QED
  BY <1>6, <1>7 DEF TypeInv

\* The types are preserved by a rollback.
LEMMA RollbackTypes ==
  ASSUME TypeInv, NEW s \in Sessions, Rollback(s)
  PROVE  TypeInv'
<1>1. TypeOK'
  BY IdleTxType DEF TypeInv, TypeOK, Rollback, Unlocked
<1>2. Shape'
  BY DEF TypeInv, TypeOK, Rollback, Shape, SessionShape, IdleTx
<1> QED
  BY <1>1, <1>2 DEF TypeInv

\* The types are preserved by OrderStart.
LEMMA OrderStartTypes ==
  ASSUME TypeInv, NEW s \in Sessions, NEW u \in Users, OrderStart(s, u)
  PROVE  TypeInv'
<1> DEFINE rec == [IdleTx EXCEPT !.kind = "order", !.user = u, !.todo = cart[u]]
<1>1. rec \in Tx
  BY IdleTxType DEF Tx, AllKinds, TypeInv, TypeOK
<1>2. tx' = [tx EXCEPT ![s] = rec]
  BY DEF OrderStart
<1>3. tx' \in [Sessions -> Tx]
  <2> HIDE DEF rec
  <2> QED BY <1>1, <1>2, TxUpdate
<1>4. TypeOK'
  BY <1>3 DEF TypeInv, TypeOK, OrderStart, Start
<1>5. Shape'
  BY DEF TypeInv, TypeOK, OrderStart, Start, Shape, SessionShape, IdleTx
<1> QED
  BY <1>4, <1>5 DEF TypeInv

\* The types are preserved by CheckLine.
LEMMA CheckLineTypes ==
  ASSUME TypeInv, NEW s \in Sessions, CheckLine(s)
  PROVE  TypeInv'
<1>1. tx[s] \in Tx /\ tx[s].todo \in Seq(Line) /\ tx[s].lines \in Seq(Line)
  BY SessionTypes
<1>2. Head(tx[s].todo) \in Line /\ Tail(tx[s].todo) \in Seq(Line)
  BY <1>1 DEF CheckLine
<1>3. Append(tx[s].lines, Head(tx[s].todo)) \in Seq(Line)
  BY <1>1, <1>2
<1>4. tx' \in [Sessions -> Tx]
  BY <1>1, <1>2, <1>3 DEF TypeInv, TypeOK, CheckLine, Tx
<1>5. TypeOK'
  BY <1>4 DEF TypeInv, TypeOK, CheckLine
<1>6. Shape'
  BY <1>1 DEF TypeInv, TypeOK, CheckLine, Shape, SessionShape, Tx
<1> QED
  BY <1>5, <1>6 DEF TypeInv

\* The types are preserved by InsertOrder.
LEMMA InsertOrderTypes ==
  ASSUME TypeInv, NEW s \in Sessions, NEW o \in Orders, InsertOrder(s, o)
  PROVE  TypeInv'
<1> DEFINE rec == [tx[s] EXCEPT !.order = o, !.todo = tx[s].lines]
<1>1. rec \in Tx
  BY SessionTypes DEF Tx
<1>2. tx' = [tx EXCEPT ![s] = rec]
  BY DEF InsertOrder, TypeInv, TypeOK
<1>3. tx' \in [Sessions -> Tx]
  <2> HIDE DEF rec
  <2> QED BY <1>1, <1>2, TxUpdate
<1>4. TypeOK'
  BY <1>3 DEF TypeInv, TypeOK, InsertOrder
<1>5. Shape'
  BY SessionTypes DEF TypeInv, TypeOK, InsertOrder, Shape, SessionShape, Tx
<1> QED
  BY <1>4, <1>5 DEF TypeInv

\* The types are preserved by ClearCart.
LEMMA ClearCartTypes ==
  ASSUME TypeInv, NEW s \in Sessions, ClearCart(s)
  PROVE  TypeInv'
<1>1. TypeOK'
  <2>1. cart' \in [Users -> Seq(Line)]
    <3>1. <<>> \in Seq(Line)
      OBVIOUS
    <3> QED BY <3>1 DEF TypeInv, TypeOK, ClearCart
  <2> QED BY <2>1, IdleTxType DEF TypeInv, TypeOK, ClearCart
<1>2. Shape'
  BY DEF TypeInv, TypeOK, ClearCart, Shape, SessionShape, IdleTx
<1> QED
  BY <1>1, <1>2 DEF TypeInv

\* The types are preserved by CancelStart.
LEMMA CancelStartTypes ==
  ASSUME TypeInv, NEW s \in Sessions, NEW o \in Orders, CancelStart(s, o)
  PROVE  TypeInv'
<1> DEFINE rec == [IdleTx EXCEPT !.kind = "cancel", !.order = o,
                                 !.todo = orders[o].lines, !.lines = orders[o].lines]
<1>1. orders[o].lines \in Seq(Line) /\ orders[o].lines # <<>>
  BY DEF TypeInv, TypeOK, Shape, SessionShape, CancelStart, Cancellable
<1>2. rec \in Tx
  BY <1>1, IdleTxType DEF Tx, AllKinds
<1>3. tx' = [tx EXCEPT ![s] = rec]
  BY DEF CancelStart
<1>4. tx' \in [Sessions -> Tx]
  <2> HIDE DEF rec
  <2> QED BY <1>2, <1>3, TxUpdate
<1>5. TypeOK'
  BY <1>4 DEF TypeInv, TypeOK, CancelStart, Start
<1>6. /\ tx'[s].kind = "cancel" /\ tx'[s].order = o /\ tx'[s].todo = orders[o].lines
      /\ pc'[s] = "ordersave" /\ orders' = orders
      /\ \A t \in Sessions \ {s} : tx'[t] = tx[t] /\ pc'[t] = pc[t]
  BY DEF TypeInv, TypeOK, CancelStart, Start, IdleTx
<1>7. SessionShape(s)'
  BY <1>1, <1>6 DEF SessionShape
<1>8. Shape'
  BY <1>6, <1>7, ShapeOfOne
<1> QED
  BY <1>5, <1>8 DEF TypeInv

\* The types are preserved by CancelSave.
LEMMA CancelSaveTypes ==
  ASSUME TypeInv, NEW s \in Sessions, CancelSave(s)
  PROVE  TypeInv'
<1>1. TypeOK'
  BY DEF TypeInv, TypeOK, CancelSave
<1>2. Shape'
  BY DEF TypeInv, TypeOK, CancelSave, Shape, SessionShape
<1> QED
  BY <1>1, <1>2 DEF TypeInv

\* The types are preserved by UpdateStatus.
LEMMA UpdateStatusTypes ==
  ASSUME TypeInv, NEW s \in Sessions, NEW o \in Orders, NEW status \in Statuses,
         UpdateStatus(s, o, status)
  PROVE  TypeInv'
<1>1. status \in OrderStatus \cup {"none"}
  BY ConstantsAssumption
<1>2. orders' \in [Orders -> [status : OrderStatus \cup {"none"}, lines : Seq(Line)]]
  BY <1>1 DEF TypeInv, TypeOK, UpdateStatus
<1>3. TypeOK'
  <2>1. reopened' \subseteq Orders
    BY DEF TypeInv, TypeOK, UpdateStatus
  <2> QED BY <1>2, <2>1 DEF TypeInv, TypeOK, UpdateStatus, Start
<1>4. orders[o].lines # <<>>
  BY DEF TypeInv, TypeOK, Shape, SessionShape, UpdateStatus, NoOrder
<1>5. Shape'
  BY <1>4 DEF TypeInv, TypeOK, UpdateStatus, Start, Shape, SessionShape
<1> QED
  BY <1>3, <1>5 DEF TypeInv

\* The types are preserved by AdjustStart.
LEMMA AdjustStartTypes ==
  ASSUME TypeInv, NEW s \in Sessions, NEW p \in Products, NEW qty \in Quantities,
         AdjustStart(s, p, qty)
  PROVE  TypeInv'
<1> DEFINE rec == [IdleTx EXCEPT !.kind = "adjust",
                                 !.todo = <<[product |-> p, qty |-> qty]>>]
<1>1. <<[product |-> p, qty |-> qty]>> \in Seq(Line)
  BY ConstantsAssumption DEF Line
<1>2. rec \in Tx
  BY <1>1, IdleTxType DEF Tx, AllKinds
<1>3. tx' = [tx EXCEPT ![s] = rec]
  BY DEF AdjustStart
<1>4. tx' \in [Sessions -> Tx]
  <2> HIDE DEF rec
  <2> QED BY <1>2, <1>3, TxUpdate
<1>5. TypeOK'
  BY <1>4 DEF TypeInv, TypeOK, AdjustStart, Start
<1>6. Shape'
  BY DEF TypeInv, TypeOK, AdjustStart, Start, Shape, SessionShape, IdleTx
<1> QED
  BY <1>5, <1>6 DEF TypeInv

\* The types are preserved by AdjustRead.
LEMMA AdjustReadTypes ==
  ASSUME TypeInv, NEW s \in Sessions, AdjustRead(s)
  PROVE  TypeInv'
<1> DEFINE rec == [tx[s] EXCEPT !.row = View(s, Target(s))]
<1>1. View(s, Target(s)) \in Row
  BY LineTypes, ViewType DEF AdjustRead, TypeInv, Shape, SessionShape
<1>2. rec \in Tx
  BY <1>1, SessionTypes DEF Tx
<1>3. tx' = [tx EXCEPT ![s] = rec]
  BY DEF AdjustRead, TypeInv, TypeOK
<1>4. tx' \in [Sessions -> Tx]
  <2> HIDE DEF rec
  <2> QED BY <1>2, <1>3, TxUpdate
<1>5. TypeOK'
  BY <1>4 DEF TypeInv, TypeOK, AdjustRead
<1>6. Shape'
  BY SessionTypes DEF TypeInv, TypeOK, AdjustRead, Shape, SessionShape, Tx
<1> QED
  BY <1>5, <1>6 DEF TypeInv

\* The row adjustStockTx saves is a row.
LEMMA AdjustedRowType ==
  ASSUME TypeInv, NEW s \in Sessions, pc[s] = "save"
  PROVE  /\ AdjustedRow(s) \in Row
         /\ AdjustedRow(s).stock = tx[s].row.stock + Delta(s)
         /\ AdjustedRow(s).stock \in Int
<1>1. tx[s].row \in Row /\ Delta(s) \in Int
  BY SessionTypes, LineTypes DEF TypeInv, Shape, SessionShape
<1> QED
  BY <1>1 DEF AdjustedRow, Row

\* A line that is done leaves a record of the right type behind, with the
\* session's order, user, kind and lines unchanged.
LEMMA AdjustedTxType ==
  ASSUME TypeInv, NEW s \in Sessions, pc[s] = "save"
  PROVE  /\ AdjustMovement(s) \in Movement
         /\ AdjustedTx(s) \in Tx
         /\ AdjustedTx(s).order = tx[s].order
         /\ AdjustedTx(s).kind = tx[s].kind
         /\ AdjustedTx(s).lines = tx[s].lines
         /\ AdjustedTx(s).todo = Tail(tx[s].todo)
         /\ AdjustedTx(s).row = BlankRow
<1>1. Target(s) \in Products /\ Delta(s) \in Int /\ Tail(tx[s].todo) \in Seq(Line)
  BY LineTypes DEF TypeInv, Shape, SessionShape
<1>2. AdjustMovement(s) \in Movement
  BY <1>1, AdjustedRowType, SessionTypes DEF AdjustMovement, Movement, Reason
<1>3. Append(tx[s].entries[Target(s)], AdjustMovement(s)) \in Seq(Movement)
  BY <1>1, <1>2, SessionTypes
<1>4. HandleThreshold(AdjustedRow(s)) \in Row
  BY AdjustedRowType, HandleThresholdType
<1>5. AdjustedTx(s) \in Tx
  BY <1>1, <1>3, <1>4, SessionTypes, BlankRowType DEF AdjustedTx, Tx
<1>6. tx[s] \in Tx
  BY SessionTypes
<1>7. /\ AdjustedTx(s).order = tx[s].order
      /\ AdjustedTx(s).kind = tx[s].kind
      /\ AdjustedTx(s).lines = tx[s].lines
  BY <1>6 DEF AdjustedTx, Tx
<1>8. AdjustedTx(s).todo = Tail(tx[s].todo) /\ AdjustedTx(s).row = BlankRow
  BY <1>6 DEF AdjustedTx, Tx
<1> QED
  BY <1>2, <1>5, <1>7, <1>8

\* The types are preserved by AdjustSave.
LEMMA AdjustSaveTypes ==
  ASSUME TypeInv, NEW s \in Sessions, AdjustSave(s)
  PROVE  TypeInv'
<1>0. pc[s] = "save" /\ orders' = orders /\ tx' = [tx EXCEPT ![s] = AdjustedTx(s)]
  BY DEF AdjustSave
<1>1. tx' \in [Sessions -> Tx]
  BY <1>0, AdjustedTxType, TxUpdate
<1>2. Target(s) \in Products /\ AdjustedRow(s) \in Row
  BY <1>0, LineTypes, AdjustedRowType DEF TypeInv, Shape, SessionShape
<1>3. alerts' \subseteq [product : Products, cycle : Nat, next : Nat \ {0},
                         by : {"api", "worker"}]
  BY <1>2, SpawnType DEF AdjustSave
<1>4. TypeOK'
  BY <1>1, <1>2, <1>3 DEF TypeInv, TypeOK, AdjustSave
<1>5. tx'[s] = AdjustedTx(s) /\ \A t \in Sessions \ {s} : tx'[t] = tx[t] /\ pc'[t] = pc[t]
  BY <1>0 DEF AdjustSave, TypeInv, TypeOK
<1>6. pc'[s] = IF Tail(tx[s].todo) = <<>> THEN "commit" ELSE "read"
  BY DEF AdjustSave, TypeInv, TypeOK
<1>7. SessionShape(s)'
  <2>1. SessionShape(s)
    BY DEF TypeInv, Shape
  <2>2. pc'[s] \in {"commit", "read"}
    BY <1>6
  <2>3. pc'[s] = "read" => tx'[s].todo # <<>>
    BY <1>0, <1>5, <1>6, AdjustedTxType
  <2>4. tx'[s].order = tx[s].order /\ tx'[s].kind = tx[s].kind /\ tx'[s].lines = tx[s].lines
    BY <1>0, <1>5, AdjustedTxType
  <2> QED BY <1>0, <2>1, <2>2, <2>3, <2>4 DEF SessionShape
<1>8. Shape'
  BY <1>0, <1>5, <1>7, ShapeOfOne
<1> QED
  BY <1>4, <1>8 DEF TypeInv

\* The order row a transaction commits is one with lines.
LEMMA CommittedOrderType ==
  ASSUME TypeInv, NEW s \in Sessions, pc[s] = "commit", tx[s].order # None
  PROVE  /\ tx[s].order \in Orders
         /\ CommittedOrder(s) \in [status : OrderStatus \cup {"none"}, lines : Seq(Line)]
         /\ CommittedOrder(s).lines # <<>>
<1>1. tx[s].order \in Orders /\ tx[s].lines \in Seq(Line)
  BY SessionTypes
<1>2. CASE tx[s].kind = "order"
  <2>1. tx[s].lines # <<>>
    BY <1>2 DEF TypeInv, Shape, SessionShape
  <2> QED BY <1>1, <1>2, <2>1 DEF CommittedOrder, OrderStatus
<1>3. CASE tx[s].kind = "cancel"
  <2>1. orders[tx[s].order] \in [status : OrderStatus \cup {"none"}, lines : Seq(Line)]
    BY <1>1 DEF TypeInv, TypeOK
  <2>2. orders[tx[s].order].lines # <<>>
    BY <1>3 DEF TypeInv, Shape, SessionShape
  <2> QED BY <1>1, <1>3, <2>1, <2>2 DEF CommittedOrder, OrderStatus
<1>4. tx[s].kind \in {"order", "cancel"}
  BY DEF TypeInv, Shape, SessionShape
<1> QED
  BY <1>2, <1>3, <1>4

\* The types are preserved by Commit.
LEMMA CommitTypes ==
  ASSUME TypeInv, NEW s \in Sessions, Commit(s)
  PROVE  TypeInv'
<1>1. products' \in [Products -> Row]
  BY ViewType DEF Commit
<1>2. ledger' \in [Products -> Seq(Movement)]
  <2>1. \A p \in Products : ledger[p] \o tx[s].entries[p] \in Seq(Movement)
    BY SessionTypes DEF TypeInv, TypeOK
  <2> QED BY <2>1 DEF Commit
<1>3. orders' \in [Orders -> [status : OrderStatus \cup {"none"}, lines : Seq(Line)]]
  BY CommittedOrderType DEF Commit, TypeInv, TypeOK
<1>4. [IdleTx EXCEPT !.kind = "order", !.user = tx[s].user] \in Tx
  BY IdleTxType, SessionTypes DEF Tx, AllKinds
<1>5. tx' \in [Sessions -> Tx]
  BY <1>4, IdleTxType DEF Commit, TypeInv, TypeOK
<1>6. TypeOK'
  <2>1. overtaken' \subseteq Products \cup Orders
    BY DEF Commit, InHands, Written, TypeInv, TypeOK
  <2> QED BY <1>1, <1>2, <1>3, <1>5, <2>1 DEF Commit, TypeInv, TypeOK, Unlocked
<1>7. SessionShape(s)'
  <2>1. CASE tx[s].kind = "order"
    <3>1. tx'[s] = [IdleTx EXCEPT !.kind = "order", !.user = tx[s].user] /\ pc'[s] = "clear"
      BY <2>1 DEF Commit, TypeInv, TypeOK
    <3>2. tx'[s].kind = "order" /\ tx'[s].order = None
      BY <3>1 DEF IdleTx
    <3> QED BY <3>1, <3>2 DEF SessionShape
  <2>2. CASE tx[s].kind # "order"
    BY <2>2 DEF Commit, TypeInv, TypeOK, SessionShape, IdleTx
  <2> QED BY <2>1, <2>2
<1>8. \A o \in Orders : orders[o].lines # <<>> => orders'[o].lines # <<>>
  BY CommittedOrderType DEF Commit, TypeInv, TypeOK
<1>9. \A t \in Sessions \ {s} : tx'[t] = tx[t] /\ pc'[t] = pc[t]
  BY DEF Commit, TypeInv, TypeOK
<1>10. \A t \in Sessions \ {s} : SessionShape(t)'
  <2> SUFFICES ASSUME NEW t \in Sessions \ {s} PROVE SessionShape(t)'
    OBVIOUS
  <2>1. tx'[t] = tx[t] /\ pc'[t] = pc[t] /\ SessionShape(t)
    BY <1>9 DEF TypeInv, Shape
  <2>2. tx[t].kind = "cancel" => orders'[tx[t].order].lines # <<>>
    BY <1>8, <2>1, SessionTypes DEF SessionShape
  <2> QED BY <2>1, <2>2 DEF SessionShape
<1>11. \A o \in Orders : orders'[o].status # "none" => orders'[o].lines # <<>>
  BY <1>8, CommittedOrderType DEF Commit, TypeInv, TypeOK, Shape
<1>12. Shape'
  BY <1>7, <1>10, <1>11 DEF Shape
<1> QED
  BY <1>6, <1>12 DEF TypeInv

\* The types are preserved by RowRead.
LEMMA RowReadTypes ==
  ASSUME TypeInv, NEW s \in Sessions, NEW p \in Products,
         NEW kind \in {"settings", "update"}, RowRead(s, kind, p)
  PROVE  TypeInv'
<1> DEFINE rec == [IdleTx EXCEPT !.kind = kind, !.row = products[p],
                                 !.todo = <<[product |-> p, qty |-> 0]>>]
<1>1. <<[product |-> p, qty |-> 0]>> \in Seq(Line)
  BY DEF Line
<1>2. products[p] \in Row
  BY DEF TypeInv, TypeOK
<1>3. rec \in Tx
  BY <1>1, <1>2, IdleTxType DEF Tx, AllKinds
<1>4. tx' = [tx EXCEPT ![s] = rec]
  BY DEF RowRead
<1>5. tx' \in [Sessions -> Tx]
  <2> HIDE DEF rec
  <2> QED BY <1>3, <1>4, TxUpdate
<1>6. TypeOK'
  BY <1>5 DEF TypeInv, TypeOK, RowRead, Start
<1>7. SessionShape(s)'
  BY DEF TypeInv, TypeOK, RowRead, Start, SessionShape, IdleTx
<1>8. orders' = orders /\ \A t \in Sessions \ {s} : tx'[t] = tx[t] /\ pc'[t] = pc[t]
  BY DEF TypeInv, TypeOK, RowRead, Start
<1> QED
  BY <1>6, <1>7, <1>8, ShapeOfOne DEF TypeInv

\* The types are preserved by SaveRow.
LEMMA SaveRowTypes ==
  ASSUME TypeInv, NEW s \in Sessions, NEW threshold \in Int, SaveRow(s, threshold)
  PROVE  /\ products' \in [Products -> Row]
         /\ Target(s) \in Products
         /\ SavedRow(s, threshold) \in Row
         /\ overtaken' \subseteq Products \cup Orders
<1>1. Target(s) \in Products /\ tx[s].row \in Row
  BY LineTypes, SessionTypes DEF SaveRow, TypeInv, Shape, SessionShape
<1>2. SavedRow(s, threshold) \in Row
  BY <1>1 DEF SavedRow, Row
<1>3. overtaken' \subseteq Products \cup Orders
  BY <1>1 DEF SaveRow, InHands, TypeInv, TypeOK
<1> QED
  BY <1>1, <1>2, <1>3 DEF SaveRow, TypeInv, TypeOK

\* The types are preserved by SettingsSave.
LEMMA SettingsSaveTypes ==
  ASSUME TypeInv, NEW s \in Sessions, NEW threshold \in Thresholds,
         SettingsSave(s, threshold)
  PROVE  TypeInv'
<1>1. products' \in [Products -> Row] /\ overtaken' \subseteq Products \cup Orders
  BY ConstantsAssumption, SaveRowTypes DEF SettingsSave
<1>2. TypeOK'
  BY <1>1, IdleTxType DEF TypeInv, TypeOK, SettingsSave, SaveRow
<1>3. SessionShape(s)'
  BY DEF TypeInv, TypeOK, SettingsSave, SaveRow, SessionShape, IdleTx
<1>4. orders' = orders /\ \A t \in Sessions \ {s} : tx'[t] = tx[t] /\ pc'[t] = pc[t]
  BY DEF TypeInv, TypeOK, SettingsSave, SaveRow
<1> QED
  BY <1>2, <1>3, <1>4, ShapeOfOne DEF TypeInv

\* The types are preserved by UpdateSave.
LEMMA UpdateSaveTypes ==
  ASSUME TypeInv, NEW s \in Sessions,
         NEW threshold \in Thresholds \cup {tx[s].row.threshold},
         NEW quantity \in Int, UpdateSave(s, threshold, quantity)
  PROVE  TypeInv'
<1>1. tx[s].row.stock \in Int /\ threshold \in Int
  BY ConstantsAssumption, SessionTypes DEF Row
<1>2. /\ products' \in [Products -> Row] /\ Target(s) \in Products
      /\ overtaken' \subseteq Products \cup Orders
  BY <1>1, SaveRowTypes DEF UpdateSave
<1>3. /\ orders' = orders
      /\ UNCHANGED <<ledger, cart, locks, scan, alerts, sent, requests, crashes, missed,
                     reopened>>
  BY DEF UpdateSave, SaveRow
<1>4. CASE quantity = tx[s].row.stock
  <2>1. tx' = [tx EXCEPT ![s] = IdleTx] /\ pc' = [pc EXCEPT ![s] = "idle"]
    BY <1>4 DEF UpdateSave
  <2>2. TypeOK'
    BY <1>2, <1>3, <2>1, IdleTxType DEF TypeInv, TypeOK
  <2>3. SessionShape(s)'
    BY <2>1 DEF TypeInv, TypeOK, SessionShape, IdleTx
  <2>4. \A t \in Sessions \ {s} : tx'[t] = tx[t] /\ pc'[t] = pc[t]
    BY <2>1 DEF TypeInv, TypeOK
  <2> QED BY <1>3, <2>2, <2>3, <2>4, ShapeOfOne DEF TypeInv
<1>5. CASE quantity # tx[s].row.stock
  <2> DEFINE todo == <<[product |-> Target(s), qty |-> quantity - tx[s].row.stock]>>
             rec == [tx[s] EXCEPT !.row = BlankRow, !.todo = todo]
  <2>1. todo \in Seq(Line) /\ todo # <<>>
    BY <1>1, <1>2 DEF Line
  <2>2. tx[s] \in Tx
    BY SessionTypes
  <2>3. rec \in Tx
    <3> HIDE DEF todo
    <3> QED BY <2>1, <2>2, BlankRowType DEF Tx
  <2>4. rec.todo # <<>> /\ rec.kind = tx[s].kind /\ rec.order = tx[s].order
    <3> HIDE DEF todo
    <3> QED BY <2>1, <2>2 DEF Tx
  <2>5. tx' = [tx EXCEPT ![s] = rec] /\ pc' = [pc EXCEPT ![s] = "read"]
    BY <1>5 DEF UpdateSave, TypeInv, TypeOK
  <2>6. tx[s].kind = "update"
    BY DEF UpdateSave
  <2> HIDE DEF rec
  <2>7. tx' \in [Sessions -> Tx]
    BY <2>3, <2>5, TxUpdate
  <2>8. TypeOK'
    BY <1>2, <1>3, <2>5, <2>7 DEF TypeInv, TypeOK
  <2>9. tx'[s] = rec /\ pc'[s] = "read"
    BY <2>5 DEF TypeInv, TypeOK
  <2>10. SessionShape(s)
    BY DEF TypeInv, Shape
  <2>11. SessionShape(s)'
    BY <2>4, <2>6, <2>9, <2>10 DEF SessionShape
  <2>12. \A t \in Sessions \ {s} : tx'[t] = tx[t] /\ pc'[t] = pc[t]
    BY <2>5 DEF TypeInv, TypeOK
  <2> QED BY <1>3, <2>8, <2>11, <2>12, ShapeOfOne DEF TypeInv
<1> QED
  BY <1>4, <1>5

\* The types are preserved by BulkSetThreshold.
LEMMA BulkTypes ==
  ASSUME TypeInv, NEW s \in Sessions, NEW chosen \in SUBSET Products,
         NEW threshold \in Thresholds, BulkSetThreshold(s, chosen, threshold)
  PROVE  TypeInv'
<1>1. products' \in [Products -> Row]
  <2>1. threshold \in Int
    BY ConstantsAssumption
  <2>2. ASSUME NEW row \in Row PROVE [row EXCEPT !.threshold = threshold] \in Row
    BY <2>1 DEF Row
  <2>3. \A p \in Products : [products[p] EXCEPT !.threshold = threshold] \in Row
    BY <2>2 DEF TypeInv, TypeOK
  <2> QED BY <2>3 DEF BulkSetThreshold, TypeInv, TypeOK
<1>2. TypeOK'
  BY <1>1 DEF TypeInv, TypeOK, BulkSetThreshold, Start
<1>3. Shape'
  BY DEF TypeInv, Shape, SessionShape, BulkSetThreshold, Start
<1> QED
  BY <1>2, <1>3 DEF TypeInv

\* The row ScanLowStock writes is a row.
LEMMA ScannedRowType ==
  ASSUME TypeInv, NEW p \in Products
  PROVE  /\ ScannedRow(p) \in Row
         /\ ScannedRow(p).stock = products[p].stock
         /\ ScannedRow(p).notified = HandleThreshold(scan.rows[p]).notified
         /\ ScannedRow(p).cycle = HandleThreshold(scan.rows[p]).cycle
<1>1. products[p] \in Row /\ scan.rows[p] \in Row
  BY DEF TypeInv, TypeOK
<1> QED
  BY <1>1, HandleThresholdType DEF ScannedRow, Row

\* The types are preserved by the worker's scan.
LEMMA WorkerTypes ==
  ASSUME TypeInv, Worker
  PROVE  TypeInv'
<1>1. CASE ScanList
  <2>1. scan' \in [todo : SUBSET Products, rows : [Products -> Row]]
    BY <1>1 DEF ScanList, TypeInv, TypeOK
  <2>2. TypeOK'
    BY <1>1, <2>1 DEF TypeInv, TypeOK, ScanList
  <2>3. Shape'
    BY <1>1 DEF TypeInv, Shape, SessionShape, ScanList
  <2> QED BY <2>2, <2>3 DEF TypeInv
<1>2. ASSUME NEW p \in Products, ScanVisit(p) PROVE TypeInv'
  <2>1. products' \in [Products -> Row]
    BY <1>2, ScannedRowType DEF ScanVisit, TypeInv, TypeOK
  <2>2. scan' \in [todo : SUBSET Products, rows : [Products -> Row]]
    <3>1. NoScan \in [todo : SUBSET Products, rows : [Products -> Row]]
      BY BlankRowType DEF NoScan
    <3> QED BY <1>2, <3>1 DEF ScanVisit, TypeInv, TypeOK
  <2>3. scan.rows[p] \in Row
    BY DEF TypeInv, TypeOK
  <2>4. alerts' \subseteq [product : Products, cycle : Nat, next : Nat \ {0},
                           by : {"api", "worker"}]
    BY <1>2, <2>3, SpawnType DEF ScanVisit
  <2>5. TypeOK'
    BY <1>2, <2>1, <2>2, <2>4 DEF TypeInv, TypeOK, ScanVisit
  <2>6. Shape'
    BY <1>2 DEF TypeInv, Shape, SessionShape, ScanVisit
  <2> QED BY <2>5, <2>6 DEF TypeInv
<1> QED
  BY <1>1, <1>2 DEF Worker

\* A notification of one of an alert's recipients has its type.
LEMMA NotificationType ==
  ASSUME TypeInv, NEW a \in alerts, NEW i \in DOMAIN Recipients
  PROVE  Notification(a, i) \in [product : Products, cycle : Nat, user : Recipient]
  BY DEF TypeInv, TypeOK, Notification, Recipient

\* A goroutine that goes on to a later recipient, or ends, keeps the type of alerts.
LEMMA DoneWithType ==
  ASSUME TypeInv, NEW a \in alerts, NEW last \in Nat, DoneWith(a, last)
  PROVE  alerts' \subseteq [product : Products, cycle : Nat, next : Nat \ {0},
                            by : {"api", "worker"}]
<1>1. /\ a \in [product : Products, cycle : Nat, next : Nat \ {0}, by : {"api", "worker"}]
      /\ last + 1 \in Nat \ {0}
  BY DEF TypeInv, TypeOK
<1>2. [a EXCEPT !.next = last + 1] \in
         [product : Products, cycle : Nat, next : Nat \ {0}, by : {"api", "worker"}]
  BY <1>1
<1> QED
  BY <1>2 DEF DoneWith, TypeInv, TypeOK

\* The number of recipients, and the recipients up to one of them.
LEMMA RecipientsType ==
  /\ Len(Recipients) \in Nat
  /\ DOMAIN Recipients = 1 .. Len(Recipients)
  /\ Admins \in Nat /\ Admins <= Len(Recipients)
  BY ConstantsAssumption

\* The types are preserved by the delivery of an alert.
LEMMA DeliverTypes ==
  ASSUME TypeInv, NEW a \in alerts, DeliverAlert(a)
  PROVE  TypeInv'
<1>1. a.next \in Nat \ {0} /\ a.next \in DOMAIN Recipients
  BY RecipientsType DEF TypeInv, TypeOK, DeliverAlert
<1>2. sent' \subseteq [product : Products, cycle : Nat, user : Recipient]
  BY <1>1, NotificationType DEF DeliverAlert, TypeInv, TypeOK
<1>3. alerts' \subseteq [product : Products, cycle : Nat, next : Nat \ {0},
                         by : {"api", "worker"}]
  BY <1>1, DoneWithType DEF DeliverAlert
<1>4. TypeOK'
  BY <1>2, <1>3 DEF TypeInv, TypeOK, DeliverAlert
<1>5. Shape'
  BY DEF TypeInv, Shape, SessionShape, DeliverAlert
<1> QED
  BY <1>4, <1>5 DEF TypeInv

\* The types are preserved by a goroutine that passes recipients over.
LEMMA PassOverTypes ==
  ASSUME TypeInv, NEW a \in alerts, NEW last \in DOMAIN Recipients, PassOver(a, last)
  PROVE  TypeInv'
<1>1. a.next \in Nat \ {0} /\ last \in Nat
  BY RecipientsType DEF TypeInv, TypeOK
<1>2. missed' \subseteq [product : Products, cycle : Nat, user : Recipient]
  <2>1. \A i \in a.next .. last : i \in DOMAIN Recipients
    BY <1>1, RecipientsType
  <2> QED BY <2>1, NotificationType DEF PassOver, TypeInv, TypeOK
<1>3. alerts' \subseteq [product : Products, cycle : Nat, next : Nat \ {0},
                         by : {"api", "worker"}]
  BY <1>1, DoneWithType DEF PassOver
<1>4. TypeOK'
  BY <1>2, <1>3 DEF TypeInv, TypeOK, PassOver
<1>5. Shape'
  BY DEF TypeInv, Shape, SessionShape, PassOver
<1> QED
  BY <1>4, <1>5 DEF TypeInv

\* The failures pass over recipients there are.
LEMMA FailureTypes ==
  ASSUME TypeInv, NEW a \in alerts, NotifyFails(a) \/ ListAdminsFails(a)
  PROVE  \E last \in DOMAIN Recipients : PassOver(a, last)
<1>1. a.next \in Nat \ {0}
  BY DEF TypeInv, TypeOK
<1>2. CASE NotifyFails(a)
  <2>1. a.next \in DOMAIN Recipients
    BY <1>1, <1>2, RecipientsType DEF NotifyFails
  <2> QED BY <1>2, <2>1 DEF NotifyFails
<1>3. CASE ListAdminsFails(a)
  <2>1. Admins \in DOMAIN Recipients
    BY <1>3, RecipientsType DEF ListAdminsFails
  <2> QED BY <1>3, <2>1 DEF ListAdminsFails
<1> QED
  BY <1>2, <1>3

\* The types are preserved by a crash.
LEMMA CrashTypes ==
  ASSUME TypeInv, ApiCrash \/ WorkerCrash
  PROVE  TypeInv'
<1>1. ASSUME NEW who, LoseAlerts(who)
      PROVE  /\ missed' \subseteq [product : Products, cycle : Nat, user : Recipient]
             /\ alerts' \subseteq alerts
  <2>1. ASSUME NEW a \in alerts, NEW i \in a.next .. Len(Recipients)
        PROVE  Notification(a, i) \in [product : Products, cycle : Nat, user : Recipient]
    <3>1. i \in DOMAIN Recipients
      BY RecipientsType DEF TypeInv, TypeOK
    <3> QED BY <3>1, NotificationType
  <2> QED BY <1>1, <2>1 DEF LoseAlerts, TypeInv, TypeOK
<1>2. CASE ApiCrash
  <2>1. TypeOK'
    BY <1>1, <1>2, IdleTxType DEF TypeInv, TypeOK, ApiCrash
  <2>2. Shape'
    BY <1>2 DEF TypeInv, TypeOK, Shape, SessionShape, ApiCrash, IdleTx
  <2> QED BY <2>1, <2>2 DEF TypeInv
<1>3. CASE WorkerCrash
  <2>1. scan' \in [todo : SUBSET Products, rows : [Products -> Row]]
    BY <1>3, BlankRowType DEF WorkerCrash, NoScan
  <2>2. TypeOK'
    BY <1>1, <1>3, <2>1 DEF TypeInv, TypeOK, WorkerCrash
  <2>3. Shape'
    BY <1>3 DEF TypeInv, Shape, SessionShape, WorkerCrash
  <2> QED BY <2>2, <2>3 DEF TypeInv
<1> QED
  BY <1>2, <1>3

\* Accepting a request preserves the types.
LEMMA RequestTypes ==
  ASSUME TypeInv, NEW s \in Sessions, Request(s)
  PROVE  TypeInv'
  BY OrderStartTypes, CancelStartTypes, UpdateStatusTypes, AdjustStartTypes,
     RowReadTypes, BulkTypes DEF Request

\* Serving a request preserves the types.
LEMMA ServeTypes ==
  ASSUME TypeInv, NEW s \in Sessions, Serve(s)
  PROVE  TypeInv'
<1>1. ASSUME NEW threshold \in Thresholds \cup {tx[s].row.threshold},
             NEW change \in Quantities \cup {0},
             UpdateSave(s, threshold, tx[s].row.stock + change)
      PROVE  TypeInv'
  <2>1. tx[s].row.stock \in Int
    BY SessionTypes DEF Row
  <2>2. change \in Int
    BY ConstantsAssumption
  <2> QED BY <1>1, <2>1, <2>2, UpdateSaveTypes
<1> QED
  BY <1>1, CheckLineTypes, RollbackTypes, InsertOrderTypes, CancelSaveTypes,
     AdjustReadTypes, AdjustSaveTypes, CommitTypes, ClearCartTypes, SettingsSaveTypes
  DEF Serve, NothingToOrder, AdjustRefuse, DeadlockVictim

\* Every step preserves the types.
LEMMA StepTypes == TypeInv /\ [Next]_vars => TypeInv'
<1> SUFFICES ASSUME TypeInv, [Next]_vars PROVE TypeInv'
  OBVIOUS
<1>1. CASE UNCHANGED vars
  BY <1>1 DEF vars, TypeInv, TypeOK, Shape, SessionShape
<1>2. ASSUME NEW s \in Sessions, Request(s) \/ Serve(s) PROVE TypeInv'
  BY <1>2, RequestTypes, ServeTypes
<1>3. CASE Deliver
  BY <1>3, DeliverTypes, PassOverTypes, FailureTypes DEF Deliver
<1> QED
  BY <1>1, <1>2, <1>3, WorkerTypes, CrashTypes DEF Next

\* Every state the program reaches is of its type, with lists of lines where the code
\* takes the first of one.
THEOREM TypesHold == Spec => []TypeInv
  BY InitTypes, StepTypes, PTL DEF Spec

\* TypeOK: every variable has its type in every reachable state.
THEOREM TypeCorrect == Spec => []TypeOK
<1>1. TypeInv => TypeOK
  BY DEF TypeInv
<1> QED
  BY <1>1, TypesHold, PTL

-----------------------------------------------------------------------------
(* Stock is never negative. *)

SessionStock(s) ==
  /\ tx[s].row.stock >= 0
  /\ \A p \in Products : tx[s].work[p].stock >= 0
  /\ pc[s] = "save" => tx[s].row.stock + Delta(s) >= 0

\* No copy of a row that may still be written has a negative quantity: neither the
\* committed rows, nor those a session has read or written; and what a session is about
\* to save has passed the check of adjustStockTx.
StockInv ==
  /\ StockNeverNegative
  /\ \A s \in Sessions : SessionStock(s)

\* When one session moves, only its own copies have to be looked at.
LEMMA StockOfOne ==
  ASSUME StockInv, NEW s \in Sessions, StockNeverNegative', SessionStock(s)',
         \A t \in Sessions \ {s} : tx'[t] = tx[t] /\ pc'[t] = pc[t]
  PROVE  StockInv'
<1>1. \A t \in Sessions \ {s} : SessionStock(t)'
  BY DEF StockInv, SessionStock, Delta
<1> QED
  BY <1>1 DEF StockInv

\* No quantity is negative at the start.
LEMMA InitStocks == Init => StockInv
<1> SUFFICES ASSUME Init PROVE StockInv
  OBVIOUS
<1>1. StockNeverNegative
  BY ConstantsAssumption DEF Init, StockNeverNegative
<1>2. ASSUME NEW s \in Sessions PROVE SessionStock(s)
  <2>1. tx[s] = IdleTx /\ pc[s] = "idle"
    BY DEF Init
  <2> QED BY <2>1 DEF SessionStock, IdleTx, BlankRow
<1> QED
  BY <1>1, <1>2 DEF StockInv

\* Non-negative quantities are preserved by accepting a request.
LEMMA RequestStock ==
  ASSUME TypeInv, StockInv, NEW s \in Sessions, Request(s)
  PROVE  StockInv'
<1> USE DEF TypeInv, TypeOK, Start
<1>1. ASSUME NEW u \in Users, OrderStart(s, u) PROVE StockInv'
  <2>1. SessionStock(s)'
    BY <1>1 DEF OrderStart, SessionStock, IdleTx, BlankRow
  <2>2. StockNeverNegative' /\ \A t \in Sessions \ {s} : tx'[t] = tx[t] /\ pc'[t] = pc[t]
    BY <1>1 DEF OrderStart, StockInv, StockNeverNegative
  <2> QED BY <2>1, <2>2, StockOfOne
<1>2. ASSUME NEW o \in Orders, CancelStart(s, o) PROVE StockInv'
  <2>1. SessionStock(s)'
    BY <1>2 DEF CancelStart, SessionStock, IdleTx, BlankRow
  <2>2. StockNeverNegative' /\ \A t \in Sessions \ {s} : tx'[t] = tx[t] /\ pc'[t] = pc[t]
    BY <1>2 DEF CancelStart, StockInv, StockNeverNegative
  <2> QED BY <2>1, <2>2, StockOfOne
<1>3. ASSUME NEW o \in Orders, NEW status \in Statuses, UpdateStatus(s, o, status)
      PROVE StockInv'
  BY <1>3 DEF UpdateStatus, StockInv, StockNeverNegative, SessionStock, Delta
<1>4. ASSUME NEW p \in Products, NEW qty \in Quantities, AdjustStart(s, p, qty)
      PROVE StockInv'
  <2>1. SessionStock(s)'
    BY <1>4 DEF AdjustStart, SessionStock, IdleTx, BlankRow
  <2>2. StockNeverNegative' /\ \A t \in Sessions \ {s} : tx'[t] = tx[t] /\ pc'[t] = pc[t]
    BY <1>4 DEF AdjustStart, StockInv, StockNeverNegative
  <2> QED BY <2>1, <2>2, StockOfOne
<1>5. ASSUME NEW kind \in {"settings", "update"}, NEW p \in Products, RowRead(s, kind, p)
      PROVE StockInv'
  <2>1. SessionStock(s)'
    BY <1>5 DEF RowRead, SessionStock, IdleTx, BlankRow, StockInv, StockNeverNegative
  <2>2. StockNeverNegative' /\ \A t \in Sessions \ {s} : tx'[t] = tx[t] /\ pc'[t] = pc[t]
    BY <1>5 DEF RowRead, StockInv, StockNeverNegative
  <2> QED BY <2>1, <2>2, StockOfOne
<1>6. ASSUME NEW chosen \in SUBSET Products, NEW threshold \in Thresholds,
             BulkSetThreshold(s, chosen, threshold)
      PROVE StockInv'
  <2>1. \A p \in Products : products'[p].stock = products[p].stock
    BY <1>6 DEF BulkSetThreshold, Row
  <2> QED BY <1>6, <2>1 DEF BulkSetThreshold, StockInv, StockNeverNegative, SessionStock, Delta
<1> QED
  BY <1>1, <1>2, <1>3, <1>4, <1>5, <1>6 DEF Request

\* Non-negative quantities are preserved by a rollback.
LEMMA RollbackStock ==
  ASSUME TypeInv, StockInv, NEW s \in Sessions, Rollback(s)
  PROVE  StockInv'
<1>1. tx'[s] = IdleTx /\ pc'[s] = "idle"
  BY DEF Rollback, TypeInv, TypeOK
<1>2. SessionStock(s)'
  BY <1>1 DEF SessionStock, IdleTx, BlankRow
<1>3. StockNeverNegative' /\ \A t \in Sessions \ {s} : tx'[t] = tx[t] /\ pc'[t] = pc[t]
  BY DEF Rollback, StockInv, StockNeverNegative, TypeInv, TypeOK
<1> QED
  BY <1>2, <1>3, StockOfOne

\* What a First returns has no negative quantity.
LEMMA ViewStock ==
  ASSUME StockInv, NEW s \in Sessions, NEW p \in Products
  PROVE  View(s, p).stock >= 0
  BY DEF View, StockInv, StockNeverNegative, SessionStock

\* The one step that decides: the row is read and tested.
LEMMA AdjustReadStock ==
  ASSUME TypeInv, StockInv, NEW s \in Sessions, AdjustRead(s)
  PROVE  StockInv'
<1>1. Target(s) \in Products /\ tx[s] \in Tx
  BY LineTypes, SessionTypes DEF AdjustRead, TypeInv, Shape, SessionShape
<1>2. tx'[s] = [tx[s] EXCEPT !.row = View(s, Target(s))]
  BY DEF AdjustRead, TypeInv, TypeOK
<1>3. /\ tx'[s].row = View(s, Target(s))
      /\ tx'[s].work = tx[s].work
      /\ tx'[s].todo = tx[s].todo
      /\ tx'[s].kind = tx[s].kind
  BY <1>1, <1>2 DEF Tx
<1>4. View(s, Target(s)).stock >= 0
  BY <1>1, ViewStock
<1>5. View(s, Target(s)).stock + Delta(s) >= 0 /\ Delta(s)' = Delta(s)
  BY <1>3 DEF AdjustRead, StockAllows, Delta
<1>6. SessionStock(s)'
  BY <1>3, <1>4, <1>5 DEF SessionStock, StockInv
<1>7. StockNeverNegative' /\ \A t \in Sessions \ {s} : tx'[t] = tx[t] /\ pc'[t] = pc[t]
  BY DEF AdjustRead, StockInv, StockNeverNegative, TypeInv, TypeOK
<1> QED
  BY <1>6, <1>7, StockOfOne

\* What is left behind by a line that is done: its product's row, and those of
\* the other products as they were.
LEMMA AdjustedTxWork ==
  ASSUME TypeInv, NEW s \in Sessions, pc[s] = "save"
  PROVE  \A p \in Products :
           /\ AdjustedTx(s).work[p] = IF p = Target(s)
                THEN HandleThreshold(AdjustedRow(s)) ELSE tx[s].work[p]
           /\ AdjustedTx(s).entries[p] = IF p = Target(s)
                THEN Append(tx[s].entries[p], AdjustMovement(s)) ELSE tx[s].entries[p]
<1>1. tx[s] \in Tx /\ tx[s].work \in [Products -> Row]
      /\ tx[s].entries \in [Products -> Seq(Movement)] /\ Target(s) \in Products
  BY SessionTypes, LineTypes DEF TypeInv, Shape, SessionShape
<1>2. /\ AdjustedTx(s).work = [tx[s].work EXCEPT ![Target(s)] = HandleThreshold(AdjustedRow(s))]
      /\ AdjustedTx(s).entries = [tx[s].entries EXCEPT ![Target(s)] = Append(@, AdjustMovement(s))]
  BY <1>1 DEF AdjustedTx, Tx
<1> QED
  BY <1>1, <1>2

\* Non-negative quantities are preserved by AdjustSave.
LEMMA AdjustSaveStock ==
  ASSUME TypeInv, StockInv, NEW s \in Sessions, AdjustSave(s)
  PROVE  StockInv'
<1>1. pc[s] = "save" /\ tx'[s] = AdjustedTx(s)
  BY DEF AdjustSave, TypeInv, TypeOK
<1>2. AdjustedRow(s) \in Row /\ AdjustedRow(s).stock >= 0
  BY <1>1, AdjustedRowType DEF StockInv, SessionStock
<1>3. HandleThreshold(AdjustedRow(s)).stock >= 0
  BY <1>2, HandleThresholdType
<1>4. \A p \in Products : tx'[s].work[p].stock >= 0
  BY <1>1, <1>3, AdjustedTxWork DEF StockInv, SessionStock
<1>5. tx'[s].row = BlankRow /\ pc'[s] # "save"
  BY <1>1, AdjustedTxType DEF AdjustSave, TypeInv, TypeOK
<1>6. SessionStock(s)'
  BY <1>4, <1>5 DEF SessionStock, BlankRow
<1>7. StockNeverNegative' /\ \A t \in Sessions \ {s} : tx'[t] = tx[t] /\ pc'[t] = pc[t]
  BY DEF AdjustSave, StockInv, StockNeverNegative, TypeInv, TypeOK
<1> QED
  BY <1>6, <1>7, StockOfOne

\* A transaction that commits publishes rows it has checked.
LEMMA CommitStock ==
  ASSUME TypeInv, StockInv, NEW s \in Sessions, Commit(s)
  PROVE  StockInv'
<1>1. StockNeverNegative'
  BY ViewStock DEF Commit, StockNeverNegative
<1>2. /\ pc'[s] # "save"
      /\ tx'[s] = IdleTx \/ tx'[s] = [IdleTx EXCEPT !.kind = "order", !.user = tx[s].user]
  BY DEF Commit, TypeInv, TypeOK
<1>3. tx'[s].row = BlankRow /\ tx'[s].work = [p \in Products |-> BlankRow]
  <2>1. CASE tx'[s] = IdleTx
    BY <2>1 DEF IdleTx
  <2>2. CASE tx'[s] = [IdleTx EXCEPT !.kind = "order", !.user = tx[s].user]
    BY <2>2 DEF IdleTx
  <2> QED BY <1>2, <2>1, <2>2
<1>4. SessionStock(s)'
  BY <1>2, <1>3 DEF SessionStock, BlankRow
<1>5. \A t \in Sessions \ {s} : tx'[t] = tx[t] /\ pc'[t] = pc[t]
  BY DEF Commit, TypeInv, TypeOK
<1> QED
  BY <1>1, <1>4, <1>5, StockOfOne

\* Non-negative quantities are preserved by SaveRow.
LEMMA SaveRowStock ==
  ASSUME TypeInv, StockInv, NEW s \in Sessions, NEW threshold, SaveRow(s, threshold)
  PROVE  StockNeverNegative'
<1>1. Target(s) \in Products /\ tx[s].row \in Row
  BY LineTypes, SessionTypes DEF SaveRow, TypeInv, Shape, SessionShape
<1>2. SavedRow(s, threshold).stock = tx[s].row.stock
  BY <1>1 DEF SavedRow, Row
<1> QED
  BY <1>1, <1>2 DEF SaveRow, StockInv, StockNeverNegative, SessionStock, TypeInv, TypeOK

\* Non-negative quantities are preserved by UpdateSave.
LEMMA UpdateSaveStock ==
  ASSUME TypeInv, StockInv, NEW s \in Sessions, NEW threshold, NEW quantity,
         UpdateSave(s, threshold, quantity)
  PROVE  StockInv'
<1>1. StockNeverNegative'
  BY SaveRowStock DEF UpdateSave
<1>2. \A t \in Sessions \ {s} : tx'[t] = tx[t] /\ pc'[t] = pc[t]
  BY DEF UpdateSave, TypeInv, TypeOK
<1>3. CASE quantity = tx[s].row.stock
  <2>1. tx'[s] = IdleTx /\ pc'[s] = "idle"
    BY <1>3 DEF UpdateSave, TypeInv, TypeOK
  <2>2. SessionStock(s)'
    BY <2>1 DEF SessionStock, IdleTx, BlankRow
  <2> QED BY <1>1, <1>2, <2>2, StockOfOne
<1>4. CASE quantity # tx[s].row.stock
  <2> DEFINE todo == <<[product |-> Target(s), qty |-> quantity - tx[s].row.stock]>>
  <2>1. tx'[s] = [tx[s] EXCEPT !.row = BlankRow, !.todo = todo] /\ pc'[s] = "read"
    BY <1>4 DEF UpdateSave, TypeInv, TypeOK
  <2> HIDE DEF todo
  <2>2. tx'[s].row = BlankRow /\ tx'[s].work = tx[s].work
    BY <2>1, SessionTypes DEF Tx
  <2>3. SessionStock(s)'
    BY <2>1, <2>2 DEF SessionStock, BlankRow, StockInv
  <2> QED BY <1>1, <1>2, <2>3, StockOfOne
<1> QED
  BY <1>3, <1>4

\* Non-negative quantities are preserved by serving a request.
LEMMA ServeStock ==
  ASSUME TypeInv, StockInv, NEW s \in Sessions, Serve(s)
  PROVE  StockInv'
<1> DEFINE Rest == \A t \in Sessions \ {s} : tx'[t] = tx[t] /\ pc'[t] = pc[t]
<1>1. CASE CheckLine(s)
  <2>1. tx[s] \in Tx
    BY SessionTypes
  <2>2. tx'[s].row = tx[s].row /\ tx'[s].work = tx[s].work /\ pc'[s] = "check"
    BY <1>1, <2>1 DEF CheckLine, TypeInv, TypeOK, Tx
  <2>3. StockNeverNegative' /\ SessionStock(s)' /\ Rest
    BY <1>1, <2>2 DEF CheckLine, TypeInv, TypeOK, StockInv, StockNeverNegative, SessionStock
  <2> QED BY <2>3, StockOfOne
<1>2. ASSUME NEW o \in Orders, InsertOrder(s, o) PROVE StockInv'
  <2>1. tx[s] \in Tx
    BY SessionTypes
  <2>2. tx'[s].row = tx[s].row /\ tx'[s].work = tx[s].work /\ pc'[s] = "read"
    BY <1>2, <2>1 DEF InsertOrder, TypeInv, TypeOK, Tx
  <2>3. StockNeverNegative' /\ SessionStock(s)' /\ Rest
    BY <1>2, <2>2 DEF InsertOrder, TypeInv, TypeOK, StockInv, StockNeverNegative, SessionStock
  <2> QED BY <2>3, StockOfOne
<1>3. CASE CancelSave(s)
  BY <1>3, StockOfOne DEF CancelSave, TypeInv, TypeOK, StockInv, StockNeverNegative, SessionStock
<1>4. CASE ClearCart(s)
  <2>1. tx'[s] = IdleTx /\ pc'[s] = "idle"
    BY <1>4 DEF ClearCart, TypeInv, TypeOK
  <2>2. StockNeverNegative' /\ SessionStock(s)' /\ Rest
    BY <1>4, <2>1 DEF ClearCart, TypeInv, TypeOK, StockInv, StockNeverNegative, SessionStock, IdleTx, BlankRow
  <2> QED BY <2>2, StockOfOne
<1>5. ASSUME NEW threshold \in Thresholds, SettingsSave(s, threshold) PROVE StockInv'
  <2>1. tx'[s] = IdleTx /\ pc'[s] = "idle"
    BY <1>5 DEF SettingsSave, TypeInv, TypeOK
  <2>2. SessionStock(s)' /\ Rest
    BY <1>5, <2>1 DEF SettingsSave, TypeInv, TypeOK, SessionStock, IdleTx, BlankRow
  <2>3. StockNeverNegative'
    BY <1>5, SaveRowStock DEF SettingsSave
  <2> QED BY <2>2, <2>3, StockOfOne
<1> QED
  BY <1>1, <1>2, <1>3, <1>4, <1>5, RollbackStock, AdjustReadStock, AdjustSaveStock,
     CommitStock, UpdateSaveStock
  DEF Serve, NothingToOrder, AdjustRefuse, DeadlockVictim

\* Every step keeps every copy of a quantity non-negative.
LEMMA StockStep == TypeInv /\ StockInv /\ [Next]_vars => StockInv'
<1> SUFFICES ASSUME TypeInv, StockInv, [Next]_vars PROVE StockInv'
  OBVIOUS
<1>1. ASSUME NEW s \in Sessions, Request(s) \/ Serve(s) PROVE StockInv'
  BY <1>1, RequestStock, ServeStock
<1>2. ASSUME UNCHANGED <<products, tx, pc>> PROVE StockInv'
  BY <1>2 DEF StockInv, StockNeverNegative, SessionStock, Delta
<1>3. ASSUME NEW p \in Products, ScanVisit(p) PROVE StockInv'
  <2>1. \A q \in Products : products'[q].stock = products[q].stock
    BY <1>3, ScannedRowType DEF ScanVisit, TypeInv, TypeOK
  <2> QED BY <1>3, <2>1 DEF ScanVisit, StockInv, StockNeverNegative, SessionStock, Delta
<1>4. CASE Worker
  BY <1>2, <1>3, <1>4 DEF Worker, ScanList
<1>5. CASE Deliver
  BY <1>2, <1>5 DEF Deliver, DeliverAlert, NotifyFails, ListAdminsFails, PassOver
<1>6. CASE ApiCrash
  <2>1. ASSUME NEW s \in Sessions PROVE SessionStock(s)'
    BY <1>6 DEF ApiCrash, SessionStock, IdleTx, BlankRow
  <2> QED BY <1>6, <2>1 DEF ApiCrash, StockInv, StockNeverNegative
<1>7. CASE WorkerCrash
  BY <1>2, <1>7 DEF WorkerCrash
<1>8. CASE UNCHANGED vars
  BY <1>2, <1>8 DEF vars
<1> QED
  BY <1>1, <1>4, <1>5, <1>6, <1>7, <1>8 DEF Next

\* StockNeverNegative, with any number of requests interleaved in any way: the check of
\* adjustStockTx is enough although nothing locks the row it reads.
THEOREM StockStaysNonNegative == Spec => []StockNeverNegative
<1>1. StockInv => StockNeverNegative
  BY DEF StockInv
<1>2. Spec => []StockInv
  BY InitStocks, StockStep, TypesHold, PTL DEF Spec
<1> QED
  BY <1>1, <1>2, PTL

-----------------------------------------------------------------------------
(* The ledger. *)

LastAfter(entries) == entries[Len(entries)].after

\* A row a transaction has written holds the quantity_after of its last movement.
SessionLedger(s) ==
  /\ tx[s].kind \in Kinds \cup {"none"}
  /\ \A p \in Products :
       Wrote(s, p) => tx[s].work[p].stock = LastAfter(tx[s].entries[p])

LedgerInv ==
  /\ \A s \in Sessions : SessionLedger(s)
  /\ LedgerTip

\* When one session moves, only its own writes have to be looked at.
LEMMA LedgerOfOne ==
  ASSUME LedgerInv, NEW s \in Sessions, SessionLedger(s)', LedgerTip',
         \A t \in Sessions \ {s} : tx'[t] = tx[t]
  PROVE  LedgerInv'
<1>1. \A t \in Sessions \ {s} : SessionLedger(t)'
  BY DEF LedgerInv, SessionLedger, Wrote
<1> QED
  BY <1>1 DEF LedgerInv

\* Steps that leave the stock and the ledger alone.
LEMMA LedgerTipKept ==
  ASSUME LedgerTip, ledger' = ledger,
         \A p \in Products : products'[p].stock = products[p].stock
  PROVE  LedgerTip'
  BY DEF LedgerTip

\* The last element of a sequence that has been appended to.
LEMMA AppendLast ==
  ASSUME NEW S, NEW q \in Seq(S), NEW e \in S
  PROVE  Append(q, e) # <<>> /\ LastAfter(Append(q, e)) = e.after
  BY DEF LastAfter

\* The last element of a concatenation.
LEMMA ConcatLast ==
  ASSUME NEW S, NEW q \in Seq(S), NEW r \in Seq(S)
  PROVE  /\ r = <<>> => q \o r = q
         /\ r # <<>> => q \o r # <<>> /\ LastAfter(q \o r) = LastAfter(r)
  BY DEF LastAfter

\* There are no movements at the start.
LEMMA InitLedger == Init => LedgerInv
<1> SUFFICES ASSUME Init PROVE LedgerInv
  OBVIOUS
<1>1. ASSUME NEW s \in Sessions PROVE SessionLedger(s)
  <2>1. tx[s] = IdleTx
    BY DEF Init
  <2> QED BY <2>1 DEF SessionLedger, IdleTx, Wrote
<1>2. LedgerTip
  BY DEF Init, LedgerTip
<1> QED
  BY <1>1, <1>2 DEF LedgerInv

\* A session that has written no movement is in step with the ledger.
LEMMA IdleLedger ==
  ASSUME NEW s \in Sessions, tx[s].kind \in Kinds \cup {"none"},
         \A p \in Products : tx[s].entries[p] = <<>>
  PROVE  SessionLedger(s)
  BY DEF SessionLedger, Wrote

\* The ledger invariant is preserved by accepting a request.
LEMMA RequestLedger ==
  ASSUME TypeInv, LedgerInv, NEW s \in Sessions, Request(s)
  PROVE  LedgerInv'
<1> USE DEF TypeInv, TypeOK, Start
<1> DEFINE Fresh == /\ tx'[s].kind \in Kinds
                    /\ \A p \in Products : tx'[s].entries[p] = <<>>
                    /\ \A t \in Sessions \ {s} : tx'[t] = tx[t]
<1>1. ASSUME Fresh, UNCHANGED <<products, ledger>> PROVE LedgerInv'
  <2>1. SessionLedger(s)'
    BY <1>1 DEF SessionLedger, Wrote
  <2>2. LedgerTip'
    BY <1>1, LedgerTipKept DEF LedgerInv
  <2> QED BY <1>1, <2>1, <2>2, LedgerOfOne
<1>2. ASSUME UNCHANGED tx, ledger' = ledger,
             \A p \in Products : products'[p].stock = products[p].stock
      PROVE LedgerInv'
  BY <1>2, LedgerTipKept DEF LedgerInv, SessionLedger, Wrote
<1>3. ASSUME NEW u \in Users, OrderStart(s, u) PROVE Fresh
  BY <1>3 DEF OrderStart, IdleTx
<1>4. ASSUME NEW o \in Orders, CancelStart(s, o) PROVE Fresh
  BY <1>4 DEF CancelStart, IdleTx
<1>5. ASSUME NEW p \in Products, NEW qty \in Quantities, AdjustStart(s, p, qty) PROVE Fresh
  BY <1>5 DEF AdjustStart, IdleTx
<1>6. ASSUME NEW kind \in {"settings", "update"}, NEW p \in Products, RowRead(s, kind, p)
      PROVE Fresh
  BY <1>6 DEF RowRead, IdleTx
<1>7. ASSUME NEW chosen \in SUBSET Products, NEW threshold \in Thresholds,
             BulkSetThreshold(s, chosen, threshold)
      PROVE LedgerInv'
  <2>1. \A p \in Products : products'[p].stock = products[p].stock
    BY <1>7 DEF BulkSetThreshold, Row
  <2> QED BY <1>2, <1>7, <2>1 DEF BulkSetThreshold
<1>8. ASSUME NEW o \in Orders, NEW status \in Statuses, UpdateStatus(s, o, status)
      PROVE LedgerInv'
  BY <1>2, <1>8 DEF UpdateStatus
<1>9. ASSUME NEW u \in Users, OrderStart(s, u) PROVE LedgerInv'
  BY <1>1, <1>3, <1>9 DEF OrderStart
<1>10. ASSUME NEW o \in Orders, CancelStart(s, o) PROVE LedgerInv'
  BY <1>1, <1>4, <1>10 DEF CancelStart
<1>11. ASSUME NEW p \in Products, NEW qty \in Quantities, AdjustStart(s, p, qty)
       PROVE LedgerInv'
  BY <1>1, <1>5, <1>11 DEF AdjustStart
<1>12. ASSUME NEW kind \in {"settings", "update"}, NEW p \in Products, RowRead(s, kind, p)
       PROVE LedgerInv'
  BY <1>1, <1>6, <1>12 DEF RowRead
<1> QED
  BY <1>7, <1>8, <1>9, <1>10, <1>11, <1>12 DEF Request

\* The row and the movement are written together.
LEMMA AdjustSaveLedger ==
  ASSUME TypeInv, LedgerInv, NEW s \in Sessions, AdjustSave(s)
  PROVE  LedgerInv'
<1>1. pc[s] = "save" /\ tx'[s] = AdjustedTx(s)
  BY DEF AdjustSave, TypeInv, TypeOK
<1>2. AdjustedRow(s) \in Row /\ AdjustMovement(s) \in Movement
  BY <1>1, AdjustedRowType, AdjustedTxType
<1>3. HandleThreshold(AdjustedRow(s)).stock = AdjustMovement(s).after
  BY <1>2, HandleThresholdType DEF AdjustMovement
<1>4. ASSUME NEW p \in Products, Wrote(s, p)'
      PROVE  tx'[s].work[p].stock = LastAfter(tx'[s].entries[p])
  <2>1. CASE p = Target(s)
    <3>1. tx[s].entries[p] \in Seq(Movement)
      BY SessionTypes
    <3> QED BY <1>1, <1>2, <1>3, <2>1, <3>1, AdjustedTxWork, AppendLast
  <2>2. CASE p # Target(s)
    BY <1>1, <1>4, <2>2, AdjustedTxWork DEF Wrote, LedgerInv, SessionLedger
  <2> QED BY <2>1, <2>2
<1>5. tx'[s].kind = tx[s].kind
  BY <1>1, AdjustedTxType
<1>6. SessionLedger(s)'
  BY <1>4, <1>5 DEF SessionLedger, LedgerInv
<1>7. LedgerTip'
  BY LedgerTipKept DEF AdjustSave, LedgerInv
<1>8. \A t \in Sessions \ {s} : tx'[t] = tx[t]
  BY DEF AdjustSave, TypeInv, TypeOK
<1> QED
  BY <1>6, <1>7, <1>8, LedgerOfOne

\* A commit appends the movements of a transaction and writes the rows they
\* speak of, in one step.
LEMMA CommitLedger ==
  ASSUME TypeInv, LedgerInv, NEW s \in Sessions, Commit(s)
  PROVE  LedgerInv'
<1>1. ASSUME Disciplined, NEW p \in Products
      PROVE  products'[p].stock = IF ledger'[p] = <<>> THEN InitStock[p]
                                                       ELSE LastAfter(ledger'[p])
  <2>1. /\ ledger[p] \in Seq(Movement) /\ tx[s].entries[p] \in Seq(Movement)
        /\ ledger'[p] = ledger[p] \o tx[s].entries[p]
        /\ products'[p] = View(s, p)
    BY SessionTypes DEF Commit, TypeInv, TypeOK
  <2>2. CASE Wrote(s, p)
    <3>1. products'[p].stock = LastAfter(tx[s].entries[p])
      BY <2>1, <2>2 DEF View, LedgerInv, SessionLedger
    <3> QED BY <2>1, <2>2, <3>1, ConcatLast DEF Wrote
  <2>3. CASE ~Wrote(s, p)
    <3>1. products'[p] = products[p] /\ ledger'[p] = ledger[p]
      BY <2>1, <2>3, ConcatLast DEF Wrote, View
    <3> QED BY <1>1, <3>1 DEF LedgerInv, LedgerTip, LastAfter
  <2> QED BY <2>2, <2>3
<1>2. LedgerTip'
  BY <1>1 DEF LedgerTip, LastAfter, Disciplined
<1>3. /\ tx'[s] = IdleTx \/ tx'[s] = [IdleTx EXCEPT !.kind = "order", !.user = tx[s].user]
      /\ tx[s].kind = "order" \/ tx'[s] = IdleTx
  BY DEF Commit, TypeInv, TypeOK
<1>4. /\ \A p \in Products : tx'[s].entries[p] = <<>>
      /\ tx'[s].kind \in Kinds \cup {"none"}
  <2>1. CASE tx'[s] = IdleTx
    BY <2>1 DEF IdleTx
  <2>2. CASE tx'[s] # IdleTx
    <3>1. tx'[s] = [IdleTx EXCEPT !.kind = "order", !.user = tx[s].user] /\ tx[s].kind = "order"
      BY <1>3, <2>2
    <3>2. tx'[s].kind = "order" /\ \A p \in Products : tx'[s].entries[p] = <<>>
      BY <3>1 DEF IdleTx
    <3> QED BY <3>1, <3>2 DEF LedgerInv, SessionLedger
  <2> QED BY <2>1, <2>2
<1>5. SessionLedger(s)'
  BY <1>4 DEF SessionLedger, Wrote
<1>6. \A t \in Sessions \ {s} : tx'[t] = tx[t]
  BY DEF Commit, TypeInv, TypeOK
<1> QED
  BY <1>2, <1>5, <1>6, LedgerOfOne

\* A whole-row save happens only where requests are not Disciplined.
LEMMA SaveRowLedger ==
  ASSUME LedgerInv, NEW s \in Sessions, tx[s].kind \in {"settings", "update"}
  PROVE  LedgerTip'
<1>1. tx[s].kind \in Kinds
  BY DEF LedgerInv, SessionLedger
<1>2. ~Disciplined
  BY <1>1 DEF Disciplined
<1> QED
  BY <1>2 DEF LedgerTip, Disciplined

\* The ledger invariant is preserved by serving a request.
LEMMA ServeLedger ==
  ASSUME TypeInv, LedgerInv, NEW s \in Sessions, Serve(s)
  PROVE  LedgerInv'
<1> DEFINE Rest == \A t \in Sessions \ {s} : tx'[t] = tx[t]
           Kept == /\ tx'[s].kind = tx[s].kind
                   /\ tx'[s].work = tx[s].work
                   /\ tx'[s].entries = tx[s].entries
<1>1. tx[s] \in Tx
  BY SessionTypes
<1>2. ASSUME Kept, Rest, LedgerTip' PROVE LedgerInv'
  <2>1. SessionLedger(s)'
    BY <1>2 DEF SessionLedger, Wrote, LedgerInv
  <2> QED BY <1>2, <2>1, LedgerOfOne
<1>3. ASSUME tx'[s] = IdleTx, Rest, LedgerTip' PROVE LedgerInv'
  <2>1. SessionLedger(s)'
    BY <1>3 DEF SessionLedger, Wrote, IdleTx
  <2> QED BY <1>3, <2>1, LedgerOfOne
<1>4. ASSUME UNCHANGED <<products, ledger>> PROVE LedgerTip'
  BY <1>4, LedgerTipKept DEF LedgerInv
<1>5. CASE CheckLine(s)
  <2>1. Kept /\ Rest
    BY <1>1, <1>5 DEF CheckLine, TypeInv, TypeOK, Tx
  <2> QED BY <1>2, <1>4, <1>5, <2>1 DEF CheckLine
<1>6. ASSUME NEW o \in Orders, InsertOrder(s, o) PROVE LedgerInv'
  <2>1. Kept /\ Rest
    BY <1>1, <1>6 DEF InsertOrder, TypeInv, TypeOK, Tx
  <2> QED BY <1>2, <1>4, <1>6, <2>1 DEF InsertOrder
<1>7. CASE CancelSave(s)
  BY <1>2, <1>4, <1>7 DEF CancelSave
<1>8. CASE AdjustRead(s)
  <2>1. Kept /\ Rest
    BY <1>1, <1>8 DEF AdjustRead, TypeInv, TypeOK, Tx
  <2> QED BY <1>2, <1>4, <1>8, <2>1 DEF AdjustRead
<1>9. CASE ClearCart(s)
  BY <1>3, <1>4, <1>9 DEF ClearCart, TypeInv, TypeOK
<1>10. CASE Rollback(s)
  BY <1>3, <1>4, <1>10 DEF Rollback, TypeInv, TypeOK
<1>11. ASSUME NEW threshold, SettingsSave(s, threshold) PROVE LedgerInv'
  <2>1. tx'[s] = IdleTx /\ Rest
    BY <1>11 DEF SettingsSave, TypeInv, TypeOK
  <2>2. LedgerTip'
    BY <1>11, SaveRowLedger DEF SettingsSave
  <2> QED BY <1>3, <2>1, <2>2
<1>12. ASSUME NEW threshold, NEW quantity, UpdateSave(s, threshold, quantity)
       PROVE LedgerInv'
  <2>1. LedgerTip'
    BY <1>12, SaveRowLedger DEF UpdateSave
  <2>2. CASE quantity = tx[s].row.stock
    BY <1>3, <1>12, <2>1, <2>2 DEF UpdateSave, TypeInv, TypeOK
  <2>3. CASE quantity # tx[s].row.stock
    <3> DEFINE todo == <<[product |-> Target(s), qty |-> quantity - tx[s].row.stock]>>
    <3>1. tx'[s] = [tx[s] EXCEPT !.row = BlankRow, !.todo = todo] /\ Rest
      BY <1>12, <2>3 DEF UpdateSave, TypeInv, TypeOK
    <3> HIDE DEF todo
    <3>2. Kept
      BY <1>1, <3>1 DEF Tx
    <3> QED BY <1>2, <2>1, <3>1, <3>2
  <2> QED BY <2>2, <2>3
<1> QED
  BY <1>5, <1>6, <1>7, <1>8, <1>9, <1>10, <1>11, <1>12, AdjustSaveLedger, CommitLedger
  DEF Serve, NothingToOrder, AdjustRefuse, DeadlockVictim

\* Every step keeps rows, movements and the writes under way in step.
LEMMA LedgerStep == TypeInv /\ LedgerInv /\ [Next]_vars => LedgerInv'
<1> SUFFICES ASSUME TypeInv, LedgerInv, [Next]_vars PROVE LedgerInv'
  OBVIOUS
<1>1. ASSUME UNCHANGED tx, ledger' = ledger,
             \A p \in Products : products'[p].stock = products[p].stock
      PROVE LedgerInv'
  BY <1>1, LedgerTipKept DEF LedgerInv, SessionLedger, Wrote
<1>2. ASSUME NEW s \in Sessions, Request(s) \/ Serve(s) PROVE LedgerInv'
  BY <1>2, RequestLedger, ServeLedger
<1>3. ASSUME NEW p \in Products, ScanVisit(p) PROVE LedgerInv'
  <2>1. \A q \in Products : products'[q].stock = products[q].stock
    BY <1>3, ScannedRowType DEF ScanVisit, TypeInv, TypeOK
  <2> QED BY <1>1, <1>3, <2>1 DEF ScanVisit
<1>4. CASE Worker
  BY <1>1, <1>3, <1>4 DEF Worker, ScanList
<1>5. CASE Deliver
  BY <1>1, <1>5 DEF Deliver, DeliverAlert, NotifyFails, ListAdminsFails, PassOver
<1>6. CASE ApiCrash
  <2>1. ASSUME NEW s \in Sessions PROVE SessionLedger(s)'
    BY <1>6 DEF ApiCrash, SessionLedger, Wrote, IdleTx
  <2>2. LedgerTip'
    BY <1>6, LedgerTipKept DEF ApiCrash, LedgerInv
  <2> QED BY <2>1, <2>2 DEF LedgerInv
<1>7. CASE WorkerCrash
  BY <1>1, <1>7 DEF WorkerCrash
<1>8. CASE UNCHANGED vars
  BY <1>1, <1>8 DEF vars
<1> QED
  BY <1>2, <1>4, <1>5, <1>6, <1>7, <1>8 DEF Next

\* The ledger invariant holds of every behaviour.
LEMMA LedgerInvHolds == Spec => []LedgerInv
  BY InitLedger, LedgerStep, TypesHold, PTL DEF Spec

\* LedgerTip: as long as adjustStockTx alone writes stock, the last movement of a product
\* says how many there are, whatever is interleaved, rolled back or crashes.
THEOREM LedgerTipHolds == Spec => []LedgerTip
<1>1. LedgerInv => LedgerTip
  BY DEF LedgerInv
<1> QED
  BY <1>1, LedgerInvHolds, PTL

-----------------------------------------------------------------------------
(* The inventory implements the book of StockBook. *)

\* What is appended to a sequence leaves its elements where they were.
LEMMA AppendedKeeps ==
  ASSUME NEW S, NEW q \in Seq(S), NEW r \in Seq(S)
  PROVE  Len(q) <= Len(q \o r) /\ \A i \in 1..Len(q) : (q \o r)[i] = q[i]
<1>1. Len(q \o r) = Len(q) + Len(r) /\ Len(q) \in Nat /\ Len(r) \in Nat
  OBVIOUS
<1>2. ASSUME NEW i \in 1..Len(q) PROVE (q \o r)[i] = q[i]
  OBVIOUS
<1> QED BY <1>1, <1>2

\* Movements are only ever added to the ledger.
LEMMA LedgerGrows ==
  ASSUME TypeInv, [Next]_vars, NEW p \in Products
  PROVE  Book!Extends(ledger[p], ledger'[p])
<1>1. ledger[p] \in Seq(Movement)
  BY DEF TypeInv, TypeOK
<1>2. ASSUME UNCHANGED ledger PROVE Book!Extends(ledger[p], ledger'[p])
  BY <1>1, <1>2 DEF Book!Extends
<1>3. ASSUME NEW s \in Sessions, Commit(s) PROVE Book!Extends(ledger[p], ledger'[p])
  <2>1. ledger'[p] = ledger[p] \o tx[s].entries[p] /\ tx[s].entries[p] \in Seq(Movement)
    BY <1>3, SessionTypes DEF Commit
  <2> DEFINE added == tx[s].entries[p]
  <2>2. added \in Seq(Movement) /\ ledger'[p] = ledger[p] \o added
    BY <2>1
  <2> HIDE DEF added
  <2>3. /\ Len(ledger[p]) <= Len(ledger[p] \o added)
        /\ \A i \in 1..Len(ledger[p]) : (ledger[p] \o added)[i] = ledger[p][i]
    BY <1>1, <2>2, AppendedKeeps
  <2> QED BY <2>2, <2>3 DEF Book!Extends
<1>4. ASSUME NEW s \in Sessions, Request(s) PROVE UNCHANGED ledger
  BY <1>4 DEF Request, OrderStart, CancelStart, UpdateStatus, AdjustStart, RowRead,
              BulkSetThreshold
<1>5. ASSUME NEW s \in Sessions, Serve(s), ~Commit(s) PROVE UNCHANGED ledger
  BY <1>5 DEF Serve, CheckLine, NothingToOrder, Rollback, InsertOrder, CancelSave,
              AdjustRead, AdjustRefuse, AdjustSave, ClearCart, DeadlockVictim,
              SettingsSave, UpdateSave, SaveRow
<1>6. CASE Worker \/ Deliver \/ ApiCrash \/ WorkerCrash \/ UNCHANGED vars
  <2>1. UNCHANGED ledger
    BY <1>6 DEF Worker, ScanList, ScanVisit, Deliver, DeliverAlert, NotifyFails,
                ListAdminsFails, PassOver, ApiCrash, WorkerCrash, vars
  <2> QED BY <1>2, <2>1
<1> QED
  BY <1>2, <1>3, <1>4, <1>5, <1>6 DEF Next

\* Stock as a function of products only changes with the ledger, and every step that
\* changes either is a Post: the ledger grows, and its tip is the stock.
THEOREM InventoryImplementsBook ==
  ASSUME Disciplined
  PROVE  Spec => ImplementsBook
<1>1. Init => Book!BookInit
  BY ConstantsAssumption DEF Init, Book!BookInit
<1>2. TypeInv /\ LedgerTip' /\ StockNeverNegative' /\ [Next]_vars
        => [Book!Post]_(Book!bookVars)
  <2> SUFFICES ASSUME TypeInv, LedgerTip', StockNeverNegative', [Next]_vars
               PROVE  Book!Post
    OBVIOUS
  <2> SUFFICES ASSUME NEW p \in Products
               PROVE  /\ Book!Extends(ledger[p], ledger'[p])
                      /\ products'[p].stock = Book!Closing(p, ledger'[p])
                      /\ products'[p].stock >= 0
    BY DEF Book!Post
  <2>1. products'[p].stock = Book!Closing(p, ledger'[p])
    BY DEF LedgerTip, Disciplined, Book!Closing
  <2>2. products'[p].stock >= 0
    BY DEF StockNeverNegative
  <2> QED BY <2>1, <2>2, LedgerGrows
<1> QED
  BY <1>1, <1>2, TypesHold, LedgerTipHolds, StockStaysNonNegative, PTL
  DEF Spec, ImplementsBook, Book!BookSpec

-----------------------------------------------------------------------------
(* No alert is lost. *)

\* The alert of product p's cycle c is on record.
Told(p, c) == \E n \in sent : n.product = p /\ n.cycle = c

\* The notification of its i-th recipient failed, or went with its process.
GivenUp(p, c, i) == Notification([product |-> p, cycle |-> c], i) \in missed

\* The alert is on record or on its way, or has failed for everybody.
Recorded(p, c) ==
  \/ Told(p, c)
  \/ \E a \in alerts : a.product = p /\ a.cycle = c
  \/ \A i \in DOMAIN Recipients : GivenUp(p, c, i)

\* A goroutine has left no recipient behind without a reason.
Diligent ==
  \A a \in alerts : \A i \in DOMAIN Recipients :
    i < a.next => Told(a.product, a.cycle) \/ GivenUp(a.product, a.cycle, i)

\* A row that says its alert was sent is right.
FlagTrue(p, row) == row.notified => Recorded(p, row.cycle)

\* Every copy of a row that may still be written: the session's own writes, the row it is
\* about to save, and the rows the worker has listed.
SessionFlags(s) ==
  /\ \A p \in Products : FlagTrue(p, tx[s].work[p])
  /\ pc[s] \in {"save", "rowsave"} => FlagTrue(Target(s), tx[s].row)

Flags ==
  /\ \A p \in Products : FlagTrue(p, products[p])
  /\ \A p \in Products : FlagTrue(p, scan.rows[p])
  /\ \A s \in Sessions : SessionFlags(s)

FlagInv == Flags /\ Diligent

\* What accounts for an alert goes on accounting for it.
AlertsGrow == \A p \in Products, c \in Nat : Recorded(p, c) => Recorded(p, c)'

LEMMA FlagStays ==
  ASSUME AlertsGrow, NEW p \in Products, NEW row \in Row, FlagTrue(p, row)
  PROVE  FlagTrue(p, row)'
  BY DEF AlertsGrow, FlagTrue, Row

\* handleThreshold flags a row only with its goroutine on its way.
LEMMA HandledFlag ==
  ASSUME TypeInv, NEW p \in Products, NEW row \in Row, NEW who \in {"api", "worker"},
         SpawnAlert(p, row, who), UNCHANGED <<sent, missed>>, FlagTrue(p, row)
  PROVE  AlertsGrow /\ FlagTrue(p, HandleThreshold(row))'
<1>1. IF CrossesLow(row)
      THEN alerts' = alerts \cup
             {[product |-> p, cycle |-> row.cycle + 1, next |-> 1, by |-> who]}
      ELSE alerts' = alerts
  BY DEF SpawnAlert, SpawnFor
<1>2. AlertsGrow
  BY <1>1 DEF AlertsGrow, Recorded, Told, GivenUp
<1>3. ASSUME CrossesLow(row) PROVE Recorded(p, row.cycle + 1)'
  <2>1. [product |-> p, cycle |-> row.cycle + 1, next |-> 1, by |-> who] \in alerts'
    BY <1>1, <1>3
  <2> QED BY <2>1 DEF Recorded
<1>4. row.cycle \in Nat /\ HandleThreshold(row).notified = IsLow(row)
      /\ HandleThreshold(row).cycle = IF CrossesLow(row) THEN row.cycle + 1 ELSE row.cycle
  BY DEF HandleThreshold, Row
<1>5. Recorded(p, row.cycle) => Recorded(p, row.cycle)'
  BY <1>2, <1>4 DEF AlertsGrow
<1> QED BY <1>2, <1>3, <1>4, <1>5 DEF FlagTrue, CrossesLow

\* The tables of notifications, sent and missed, only grow.
TablesGrow == sent \subseteq sent' /\ missed \subseteq missed'

LEMMA TablesKeep ==
  ASSUME TablesGrow, NEW p, NEW c
  PROVE  /\ Told(p, c) => Told(p, c)'
         /\ \A i \in DOMAIN Recipients : GivenUp(p, c, i) => GivenUp(p, c, i)'
  BY DEF TablesGrow, Told, GivenUp, Notification

\* Goroutines that start, or vanish, leave nobody behind.
LEMMA DiligentKept ==
  ASSUME TypeInv, Diligent, TablesGrow, \A a \in alerts' : a \in alerts \/ a.next = 1
  PROVE  Diligent'
<1> SUFFICES ASSUME NEW a \in alerts', NEW i \in DOMAIN Recipients, i < a.next
             PROVE  Told(a.product, a.cycle)' \/ GivenUp(a.product, a.cycle, i)'
  BY DEF Diligent
<1>1. a \in alerts
  BY RecipientsType
<1> QED BY <1>1, TablesKeep DEF Diligent

\* Nothing of an alert changes.
LEMMA AlertsStay ==
  ASSUME UNCHANGED <<sent, alerts, missed>>
  PROVE  AlertsGrow /\ (Diligent => Diligent')
  BY DEF AlertsGrow, Diligent, Recorded, Told, GivenUp

\* A goroutine goes on, or ends, when the recipients up to the last one it has done with
\* have the alert on record or have missed it.
LEMMA DoneWithFlags ==
  ASSUME TypeInv, Diligent, TablesGrow, NEW a \in alerts, NEW last \in DOMAIN Recipients,
         DoneWith(a, last),
         \A i \in DOMAIN Recipients :
           a.next <= i /\ i <= last
             => Told(a.product, a.cycle)' \/ GivenUp(a.product, a.cycle, i)'
  PROVE  AlertsGrow /\ Diligent'
<1> DEFINE went == [a EXCEPT !.next = last + 1]
<1>0. /\ a.next \in Nat /\ last \in Nat /\ last <= Len(Recipients)
      /\ went.product = a.product /\ went.cycle = a.cycle /\ went.next = last + 1
  BY RecipientsType DEF TypeInv, TypeOK
<1>1. /\ alerts' = (alerts \ {a}) \cup (IF last = Len(Recipients) THEN {} ELSE {went})
  BY DEF DoneWith
<1> HIDE DEF went
<1>2. \A i \in DOMAIN Recipients :
        i <= last => Told(a.product, a.cycle)' \/ GivenUp(a.product, a.cycle, i)'
  <2> SUFFICES ASSUME NEW i \in DOMAIN Recipients, i <= last
               PROVE  Told(a.product, a.cycle)' \/ GivenUp(a.product, a.cycle, i)'
    OBVIOUS
  <2>1. CASE i < a.next
    BY <2>1, TablesKeep DEF Diligent
  <2>2. CASE a.next <= i
    BY <2>2
  <2> QED BY <1>0, <2>1, <2>2, RecipientsType
<1>3. Diligent'
  <2> SUFFICES ASSUME NEW b \in alerts', NEW i \in DOMAIN Recipients, i < b.next
               PROVE  Told(b.product, b.cycle)' \/ GivenUp(b.product, b.cycle, i)'
    BY DEF Diligent
  <2>1. CASE b = went
    <3>1. i <= last
      BY <1>0, <2>1, RecipientsType
    <3> QED BY <1>0, <1>2, <2>1, <3>1
  <2>2. CASE b \in alerts
    BY <2>2, TablesKeep DEF Diligent
  <2> QED BY <1>1, <2>1, <2>2
<1>4. ASSUME NEW p \in Products, NEW c \in Nat, Recorded(p, c) PROVE Recorded(p, c)'
  <2>1. CASE Told(p, c) \/ \A i \in DOMAIN Recipients : GivenUp(p, c, i)
    BY <2>1, TablesKeep DEF Recorded
  <2>2. ASSUME NEW b \in alerts, b.product = p, b.cycle = c PROVE Recorded(p, c)'
    <3>1. CASE b # a
      BY <1>1, <2>2, <3>1 DEF Recorded
    <3>2. CASE b = a /\ last # Len(Recipients)
      <4>1. went \in alerts'
        BY <1>1, <3>2
      <4> QED BY <1>0, <2>2, <3>2, <4>1 DEF Recorded
    <3>3. CASE b = a /\ last = Len(Recipients)
      <4>1. \A i \in DOMAIN Recipients : Told(p, c)' \/ GivenUp(p, c, i)'
        BY <1>2, <2>2, <3>3, RecipientsType
      <4> QED BY <4>1 DEF Recorded
    <3> QED BY <3>1, <3>2, <3>3
  <2> QED BY <1>4, <2>1, <2>2 DEF Recorded
<1> QED BY <1>3, <1>4 DEF AlertsGrow

\* Delivery records the alert before its goroutine ends.
LEMMA DeliverFlags ==
  ASSUME TypeInv, Diligent, NEW a \in alerts, DeliverAlert(a)
  PROVE  AlertsGrow /\ Diligent'
<1>1. TablesGrow
  BY DEF DeliverAlert, TablesGrow
<1>2. a.next \in DOMAIN Recipients /\ DoneWith(a, a.next)
  BY RecipientsType DEF DeliverAlert, TypeInv, TypeOK
<1>3. Told(a.product, a.cycle)'
  <2>1. CASE \E n \in sent : AlertKey(n) = AlertKey(a)
    BY <1>1, <2>1 DEF AlertKey, Told, TablesGrow
  <2>2. CASE ~\E n \in sent : AlertKey(n) = AlertKey(a)
    <3>1. Notification(a, a.next) \in sent'
      BY <2>2 DEF DeliverAlert
    <3> QED BY <3>1 DEF Told, Notification
  <2> QED BY <2>1, <2>2
<1> QED BY <1>1, <1>2, <1>3, DoneWithFlags

\* A goroutine that drops errors leaves behind only those it has failed.
LEMMA PassOverFlags ==
  ASSUME TypeInv, Diligent, NEW a \in alerts, NEW last \in DOMAIN Recipients,
         PassOver(a, last)
  PROVE  AlertsGrow /\ Diligent'
<1>1. TablesGrow /\ DoneWith(a, last)
  BY DEF PassOver, TablesGrow
<1>2. ASSUME NEW i \in DOMAIN Recipients, a.next <= i, i <= last
      PROVE  GivenUp(a.product, a.cycle, i)'
  <2>1. i \in a.next .. last
    BY <1>2, RecipientsType DEF TypeInv, TypeOK
  <2>2. Notification(a, i) \in missed'
    BY <2>1 DEF PassOver
  <2> QED BY <2>2 DEF GivenUp, Notification
<1> QED BY <1>1, <1>2, DoneWithFlags

\* A crash takes goroutines with it, whose remaining recipients have missed the alert.
LEMMA LoseFlags ==
  ASSUME TypeInv, Diligent, NEW who, LoseAlerts(who), sent' = sent
  PROVE  AlertsGrow /\ Diligent'
<1>1. TablesGrow /\ alerts' \subseteq alerts
  BY DEF LoseAlerts, TablesGrow
<1>2. Diligent'
  BY <1>1, DiligentKept
<1>3. ASSUME NEW p \in Products, NEW c \in Nat, Recorded(p, c) PROVE Recorded(p, c)'
  <2>1. CASE Told(p, c) \/ \A i \in DOMAIN Recipients : GivenUp(p, c, i)
    BY <1>1, <2>1, TablesKeep DEF Recorded
  <2>2. ASSUME NEW b \in alerts, b.product = p, b.cycle = c PROVE Recorded(p, c)'
    <3>1. CASE b \in alerts'
      BY <2>2, <3>1 DEF Recorded
    <3>2. CASE b \notin alerts'
      <4>1. ASSUME NEW i \in DOMAIN Recipients PROVE Told(p, c)' \/ GivenUp(p, c, i)'
        <5>1. CASE i < b.next
          BY <1>1, <2>2, <5>1, TablesKeep DEF Diligent
        <5>2. CASE ~(i < b.next)
          <6>1. i \in b.next .. Len(Recipients)
            BY <5>2, RecipientsType DEF TypeInv, TypeOK
          <6>2. Notification(b, i) \in missed'
            BY <3>2, <6>1 DEF LoseAlerts
          <6> QED BY <2>2, <6>2 DEF GivenUp, Notification
        <5> QED BY <5>1, <5>2
      <4> QED BY <4>1 DEF Recorded
    <3> QED BY <3>1, <3>2
  <2> QED BY <1>3, <2>1, <2>2 DEF Recorded
<1> QED BY <1>2, <1>3 DEF AlertsGrow

\* When one session moves, the flags of the others' copies stay true.
LEMMA FlagsOfOne ==
  ASSUME TypeInv, Flags, AlertsGrow, NEW s \in Sessions,
         \A p \in Products : FlagTrue(p, products[p])', SessionFlags(s)', scan' = scan,
         \A t \in Sessions \ {s} : tx'[t] = tx[t] /\ pc'[t] = pc[t]
  PROVE  Flags'
<1>1. ASSUME NEW p \in Products PROVE FlagTrue(p, scan.rows[p])'
  <2>1. PICK row \in Row : row = scan.rows[p]
    BY DEF TypeInv, TypeOK
  <2>2. FlagTrue(p, row)'
    BY <2>1, FlagStays DEF Flags
  <2> QED BY <2>1, <2>2 DEF FlagTrue
<1>2. ASSUME NEW t \in Sessions \ {s} PROVE SessionFlags(t)'
  <2>1. ASSUME NEW p \in Products PROVE FlagTrue(p, tx[t].work[p])'
    <3>1. PICK row \in Row : row = tx[t].work[p]
      BY SessionTypes
    <3>2. FlagTrue(p, row)'
      BY <3>1, FlagStays DEF Flags, SessionFlags
    <3> QED BY <3>1, <3>2 DEF FlagTrue
  <2>2. ASSUME pc[t] \in {"save", "rowsave"} PROVE FlagTrue(Target(t), tx[t].row)'
    <3>1. Target(t) \in Products /\ tx[t].row \in Row
      BY <2>2, SessionTypes, LineTypes DEF TypeInv, Shape, SessionShape
    <3>2. PICK p \in Products, row \in Row : p = Target(t) /\ row = tx[t].row
      BY <3>1
    <3>3. FlagTrue(p, row)'
      BY <2>2, <3>2, FlagStays DEF Flags, SessionFlags
    <3> QED BY <3>2, <3>3 DEF FlagTrue, Target
  <2> QED BY <2>1, <2>2 DEF SessionFlags
<1> QED BY <1>1, <1>2 DEF Flags

\* The same of a step that writes no product row and starts no goroutine.
LEMMA FlagsOfReader ==
  ASSUME TypeInv, Flags, NEW s \in Sessions, UNCHANGED <<products, scan, sent, alerts, missed>>,
         SessionFlags(s)', \A t \in Sessions \ {s} : tx'[t] = tx[t] /\ pc'[t] = pc[t]
  PROVE  Flags'
<1>1. AlertsGrow
  BY DEF AlertsGrow, Recorded, Told, GivenUp
<1>2. \A p \in Products : FlagTrue(p, products[p])'
  BY DEF Flags, FlagTrue, Recorded, Told, GivenUp
<1> QED BY <1>1, <1>2, FlagsOfOne

\* A true flag that is copied, while nothing happens to the alerts, is true.
LEMMA FlagCopied ==
  ASSUME UNCHANGED <<sent, alerts, missed>>, NEW p, NEW row, FlagTrue(p, row)
  PROVE  FlagTrue(p, row)'
  BY DEF FlagTrue, Recorded, Told, GivenUp

\* A session that holds nothing yet.
LEMMA BlankFlags ==
  ASSUME NEW s \in Sessions, tx'[s].work = [p \in Products |-> BlankRow],
         pc'[s] \notin {"save", "rowsave"}
  PROVE  SessionFlags(s)'
  BY DEF SessionFlags, FlagTrue, BlankRow

LEMMA RequestFlags ==
  ASSUME TypeInv, Flags, NEW s \in Sessions, Request(s)
  PROVE  Flags'
<1> USE DEF TypeInv, TypeOK, Start
<1>1. ASSUME NEW u \in Users, OrderStart(s, u) PROVE Flags'
  <2>1. /\ tx'[s].work = [p \in Products |-> BlankRow] /\ pc'[s] = "check"
        /\ UNCHANGED <<products, scan, sent, alerts, missed>>
        /\ \A t \in Sessions \ {s} : tx'[t] = tx[t] /\ pc'[t] = pc[t]
    BY <1>1 DEF OrderStart, IdleTx
  <2> QED BY <2>1, BlankFlags, FlagsOfReader
<1>2. ASSUME NEW o \in Orders, CancelStart(s, o) PROVE Flags'
  <2>1. /\ tx'[s].work = [p \in Products |-> BlankRow] /\ pc'[s] = "ordersave"
        /\ UNCHANGED <<products, scan, sent, alerts, missed>>
        /\ \A t \in Sessions \ {s} : tx'[t] = tx[t] /\ pc'[t] = pc[t]
    BY <1>2 DEF CancelStart, IdleTx
  <2> QED BY <2>1, BlankFlags, FlagsOfReader
<1>3. ASSUME NEW p \in Products, NEW qty \in Quantities, AdjustStart(s, p, qty) PROVE Flags'
  <2>1. /\ tx'[s].work = [q \in Products |-> BlankRow] /\ pc'[s] = "read"
        /\ UNCHANGED <<products, scan, sent, alerts, missed>>
        /\ \A t \in Sessions \ {s} : tx'[t] = tx[t] /\ pc'[t] = pc[t]
    BY <1>3 DEF AdjustStart, IdleTx
  <2> QED BY <2>1, BlankFlags, FlagsOfReader
<1>4. ASSUME NEW kind \in {"settings", "update"}, NEW p \in Products, RowRead(s, kind, p)
      PROVE  Flags'
  <2>1. /\ tx'[s].work = [q \in Products |-> BlankRow]
        /\ tx'[s].row = products[p] /\ Target(s)' = p
        /\ UNCHANGED <<products, scan, sent, alerts, missed>>
        /\ \A t \in Sessions \ {s} : tx'[t] = tx[t] /\ pc'[t] = pc[t]
    BY <1>4 DEF RowRead, IdleTx, Target
  <2>2. FlagTrue(p, tx[s].row)'
    <3>1. PICK row : row = products[p] /\ FlagTrue(p, row)
      BY DEF Flags
    <3>2. FlagTrue(p, row)'
      BY <2>1, <3>1, FlagCopied
    <3> QED BY <2>1, <3>1, <3>2 DEF FlagTrue
  <2>3. \A q \in Products : FlagTrue(q, tx[s].work[q])'
    BY <2>1 DEF FlagTrue, BlankRow
  <2>4. FlagTrue(Target(s), tx[s].row)'
    BY <2>1, <2>2 DEF FlagTrue
  <2>5. SessionFlags(s)'
    BY <2>3, <2>4 DEF SessionFlags
  <2> QED BY <2>1, <2>5, FlagsOfReader
<1>5. CASE UNCHANGED <<products, scan, sent, alerts, missed, tx, pc>>
  BY <1>5 DEF Flags, SessionFlags, FlagTrue, Recorded, Told, GivenUp, Target
<1>6. ASSUME NEW chosen \in SUBSET Products, NEW threshold \in Thresholds,
             BulkSetThreshold(s, chosen, threshold)
      PROVE  Flags'
  <2>1. \A p \in Products : /\ products'[p].notified = products[p].notified
                            /\ products'[p].cycle = products[p].cycle
    BY <1>6 DEF BulkSetThreshold, Row
  <2>2. UNCHANGED <<scan, sent, alerts, missed, tx, pc>>
    BY <1>6 DEF BulkSetThreshold
  <2>3. ASSUME NEW p \in Products PROVE FlagTrue(p, products[p])'
    <3>1. /\ FlagTrue(p, products[p])
          /\ Recorded(p, products[p].cycle) => Recorded(p, products[p].cycle)'
      BY <2>1, <2>2 DEF Flags, Recorded, Told, GivenUp
    <3> QED BY <2>1, <3>1 DEF FlagTrue
  <2>4. SessionFlags(s)'
    BY <2>2 DEF Flags, SessionFlags, FlagTrue, Recorded, Told, GivenUp, Target
  <2>5. AlertsGrow
    BY <2>2 DEF AlertsGrow, Recorded, Told, GivenUp
  <2> QED BY <2>2, <2>3, <2>4, <2>5, FlagsOfOne
<1> QED BY <1>1, <1>2, <1>3, <1>4, <1>5, <1>6 DEF Request, UpdateStatus

\* The transaction is gone, or over.
LEMMA RollbackFlags ==
  ASSUME TypeInv, Flags, NEW s \in Sessions, Rollback(s)
  PROVE  Flags'
<1>1. /\ tx'[s].work = [p \in Products |-> BlankRow] /\ pc'[s] = "idle"
      /\ UNCHANGED <<products, scan, sent, alerts, missed>>
      /\ \A t \in Sessions \ {s} : tx'[t] = tx[t] /\ pc'[t] = pc[t]
  BY DEF Rollback, TypeInv, TypeOK, IdleTx
<1> QED BY <1>1, BlankFlags, FlagsOfReader

LEMMA AdjustReadFlags ==
  ASSUME TypeInv, Flags, NEW s \in Sessions, AdjustRead(s)
  PROVE  Flags'
<1>1. Target(s) \in Products /\ tx[s] \in Tx
  BY LineTypes, SessionTypes DEF AdjustRead, TypeInv, Shape, SessionShape
<1>2. tx'[s] = [tx[s] EXCEPT !.row = View(s, Target(s))]
  BY DEF AdjustRead, TypeInv, TypeOK
<1>3. tx'[s].row = View(s, Target(s)) /\ tx'[s].work = tx[s].work /\ tx'[s].todo = tx[s].todo
  BY <1>1, <1>2 DEF Tx
<1>4. /\ UNCHANGED <<products, scan, sent, alerts, missed>>
      /\ \A t \in Sessions \ {s} : tx'[t] = tx[t] /\ pc'[t] = pc[t]
  BY DEF AdjustRead, TypeInv, TypeOK
<1>5. FlagTrue(Target(s), View(s, Target(s)))
  BY <1>1 DEF View, Flags, SessionFlags
<1>6. SessionFlags(s)'
  <2>1. FlagTrue(Target(s), tx[s].row)'
    <3>1. PICK p, row : p = Target(s) /\ row = View(s, Target(s)) /\ FlagTrue(p, row)
      BY <1>5
    <3>2. FlagTrue(p, row)'
      BY <1>4, <3>1, FlagCopied
    <3> QED BY <1>3, <3>1, <3>2 DEF FlagTrue, Target
  <2>2. ASSUME NEW p \in Products PROVE FlagTrue(p, tx[s].work[p])'
    <3>1. PICK row : row = tx[s].work[p] /\ FlagTrue(p, row)
      BY DEF Flags, SessionFlags
    <3>2. FlagTrue(p, row)'
      BY <1>4, <3>1, FlagCopied
    <3> QED BY <1>3, <3>1, <3>2 DEF FlagTrue
  <2> QED BY <2>1, <2>2 DEF SessionFlags
<1> QED BY <1>4, <1>6, FlagsOfReader

LEMMA AdjustSaveFlags ==
  ASSUME TypeInv, Flags, NEW s \in Sessions, AdjustSave(s)
  PROVE  Flags'
<1>1. /\ pc[s] = "save" /\ tx'[s] = AdjustedTx(s) /\ pc'[s] \notin {"save", "rowsave"}
      /\ SpawnAlert(Target(s), AdjustedRow(s), "api")
      /\ UNCHANGED <<products, scan, sent, missed>>
      /\ \A t \in Sessions \ {s} : tx'[t] = tx[t] /\ pc'[t] = pc[t]
  BY DEF AdjustSave, TypeInv, TypeOK
<1>2. PICK p \in Products, row \in Row : p = Target(s) /\ row = AdjustedRow(s)
  BY <1>1, AdjustedRowType, LineTypes DEF TypeInv, Shape, SessionShape
<1>3. FlagTrue(p, row)
  <2>1. row.notified = tx[s].row.notified /\ row.cycle = tx[s].row.cycle
    BY <1>2, SessionTypes DEF AdjustedRow, Row
  <2> QED BY <1>1, <1>2, <2>1 DEF Flags, SessionFlags, FlagTrue
<1>4. AlertsGrow /\ FlagTrue(p, HandleThreshold(row))'
  BY <1>1, <1>2, <1>3, HandledFlag
<1>5. ASSUME NEW q \in Products PROVE FlagTrue(q, tx[s].work[q])'
  <2>1. PICK old \in Row : old = tx[s].work[q]
    BY SessionTypes
  <2>2. FlagTrue(q, old)'
    BY <1>4, <2>1, FlagStays DEF Flags, SessionFlags
  <2>3. tx'[s].work[q] = IF q = p THEN HandleThreshold(row) ELSE old
    BY <1>1, <1>2, <2>1, AdjustedTxWork
  <2> QED BY <1>4, <2>2, <2>3 DEF FlagTrue
<1>6. SessionFlags(s)'
  BY <1>1, <1>5 DEF SessionFlags
<1>7. ASSUME NEW q \in Products PROVE FlagTrue(q, products[q])'
  <2>1. PICK old \in Row : old = products[q]
    BY DEF TypeInv, TypeOK
  <2>2. FlagTrue(q, old)'
    BY <1>4, <2>1, FlagStays DEF Flags
  <2> QED BY <1>1, <2>1, <2>2 DEF FlagTrue
<1> QED BY <1>1, <1>4, <1>6, <1>7, FlagsOfOne

LEMMA CommitFlags ==
  ASSUME TypeInv, Flags, NEW s \in Sessions, Commit(s)
  PROVE  Flags'
<1>1. /\ UNCHANGED <<scan, sent, alerts, missed>> /\ products' = [p \in Products |-> View(s, p)]
      /\ \A t \in Sessions \ {s} : tx'[t] = tx[t] /\ pc'[t] = pc[t]
      /\ pc'[s] \notin {"save", "rowsave"}
      /\ tx'[s] = IdleTx \/ tx'[s] = [IdleTx EXCEPT !.kind = "order", !.user = tx[s].user]
  BY DEF Commit, TypeInv, TypeOK
<1>2. tx'[s].work = [p \in Products |-> BlankRow]
  <2>1. CASE tx'[s] = IdleTx
    BY <2>1 DEF IdleTx
  <2>2. CASE tx'[s] = [IdleTx EXCEPT !.kind = "order", !.user = tx[s].user]
    BY <2>2 DEF IdleTx
  <2> QED BY <1>1, <2>1, <2>2
<1>3. AlertsGrow
  BY <1>1 DEF AlertsGrow, Recorded, Told, GivenUp
<1>4. \A p \in Products : FlagTrue(p, products[p])'
  BY <1>1 DEF View, Flags, SessionFlags, FlagTrue, Recorded, Told, GivenUp
<1> QED BY <1>1, <1>2, <1>3, <1>4, BlankFlags, FlagsOfOne

\* The forms write the flags they read.
LEMMA SaveRowFlags ==
  ASSUME TypeInv, Flags, NEW s \in Sessions, NEW threshold, SaveRow(s, threshold)
  PROVE  AlertsGrow /\ \A p \in Products : FlagTrue(p, products[p])'
<1>1. Target(s) \in Products /\ tx[s].row \in Row
  BY LineTypes, SessionTypes DEF SaveRow, TypeInv, Shape, SessionShape
<1>2. /\ SavedRow(s, threshold).notified = tx[s].row.notified
      /\ SavedRow(s, threshold).cycle = tx[s].row.cycle
  BY <1>1 DEF SavedRow, Row
<1>3. /\ UNCHANGED <<sent, alerts, missed>> /\ pc[s] = "rowsave"
      /\ products' = [products EXCEPT ![Target(s)] = SavedRow(s, threshold)]
  BY DEF SaveRow
<1>4. AlertsGrow
  BY <1>3 DEF AlertsGrow, Recorded, Told, GivenUp
<1>5. FlagTrue(Target(s), tx[s].row)
  BY <1>3 DEF Flags, SessionFlags
<1>6. \A p \in Products :
        products'[p] = IF p = Target(s) THEN SavedRow(s, threshold) ELSE products[p]
  BY <1>1, <1>3 DEF TypeInv, TypeOK
<1> QED BY <1>2, <1>3, <1>4, <1>5, <1>6 DEF Flags, FlagTrue, Recorded, Told, GivenUp

LEMMA UpdateSaveFlags ==
  ASSUME TypeInv, Flags, NEW s \in Sessions, NEW threshold, NEW quantity,
         UpdateSave(s, threshold, quantity)
  PROVE  Flags'
<1>1. /\ AlertsGrow /\ \A p \in Products : FlagTrue(p, products[p])'
      /\ scan' = scan
  BY SaveRowFlags DEF UpdateSave, SaveRow
<1>2. UNCHANGED <<sent, alerts, missed>>
  BY DEF UpdateSave, SaveRow
<1>3. \A t \in Sessions \ {s} : tx'[t] = tx[t] /\ pc'[t] = pc[t]
  BY DEF UpdateSave, TypeInv, TypeOK
<1>4. CASE quantity = tx[s].row.stock
  <2>1. tx'[s].work = [p \in Products |-> BlankRow] /\ pc'[s] = "idle"
    BY <1>4 DEF UpdateSave, TypeInv, TypeOK, IdleTx
  <2> QED BY <1>1, <1>3, <2>1, BlankFlags, FlagsOfOne
<1>5. CASE quantity # tx[s].row.stock
  <2> DEFINE todo == <<[product |-> Target(s), qty |-> quantity - tx[s].row.stock]>>
  <2>1. tx'[s] = [tx[s] EXCEPT !.row = BlankRow, !.todo = todo] /\ pc'[s] = "read"
    BY <1>5 DEF UpdateSave, TypeInv, TypeOK
  <2> HIDE DEF todo
  <2>2. tx'[s].work = tx[s].work
    BY <2>1, SessionTypes DEF Tx
  <2>3. SessionFlags(s)'
    BY <1>2, <2>1, <2>2 DEF SessionFlags, Flags, FlagTrue, Recorded, Told, GivenUp
  <2> QED BY <1>1, <1>3, <2>3, FlagsOfOne
<1> QED BY <1>4, <1>5

LEMMA ServeFlags ==
  ASSUME TypeInv, Flags, NEW s \in Sessions, Serve(s)
  PROVE  Flags'
<1> DEFINE Rest == /\ \A t \in Sessions \ {s} : tx'[t] = tx[t] /\ pc'[t] = pc[t]
                   /\ UNCHANGED <<products, scan, sent, alerts, missed>>
<1>1. ASSUME NEW o \in Orders, InsertOrder(s, o) PROVE Flags'
  <2>1. tx[s] \in Tx
    BY SessionTypes
  <2>2. tx'[s].work = tx[s].work /\ pc'[s] = "read" /\ Rest
    BY <1>1, <2>1 DEF InsertOrder, TypeInv, TypeOK, Tx
  <2>3. SessionFlags(s)'
    BY <2>2 DEF SessionFlags, Flags, FlagTrue, Recorded, Told, GivenUp
  <2> QED BY <2>2, <2>3, FlagsOfReader
<1>2. CASE CheckLine(s)
  <2>1. tx[s] \in Tx
    BY SessionTypes
  <2>2. tx'[s].work = tx[s].work /\ pc'[s] = "check" /\ Rest
    BY <1>2, <2>1 DEF CheckLine, TypeInv, TypeOK, Tx
  <2>3. SessionFlags(s)'
    BY <2>2 DEF SessionFlags, Flags, FlagTrue, Recorded, Told, GivenUp
  <2> QED BY <2>2, <2>3, FlagsOfReader
<1>3. CASE CancelSave(s)
  <2>1. tx' = tx /\ pc'[s] = "read" /\ Rest
    BY <1>3 DEF CancelSave, TypeInv, TypeOK
  <2>2. SessionFlags(s)'
    BY <2>1 DEF SessionFlags, Flags, FlagTrue, Recorded, Told, GivenUp
  <2> QED BY <2>1, <2>2, FlagsOfReader
<1>4. CASE ClearCart(s)
  <2>1. tx'[s].work = [p \in Products |-> BlankRow] /\ pc'[s] = "idle" /\ Rest
    BY <1>4 DEF ClearCart, TypeInv, TypeOK, IdleTx
  <2> QED BY <2>1, BlankFlags, FlagsOfReader
<1>5. ASSUME NEW threshold \in Thresholds, SettingsSave(s, threshold) PROVE Flags'
  <2>1. /\ tx'[s].work = [p \in Products |-> BlankRow] /\ pc'[s] = "idle" /\ scan' = scan
        /\ \A t \in Sessions \ {s} : tx'[t] = tx[t] /\ pc'[t] = pc[t]
        /\ SaveRow(s, threshold)
    BY <1>5 DEF SettingsSave, SaveRow, TypeInv, TypeOK, IdleTx
  <2> QED BY <2>1, SaveRowFlags, BlankFlags, FlagsOfOne
<1> QED
  BY <1>1, <1>2, <1>3, <1>4, <1>5, RollbackFlags, AdjustReadFlags, AdjustSaveFlags,
     CommitFlags, UpdateSaveFlags
  DEF Serve, NothingToOrder, AdjustRefuse, DeadlockVictim

\* Other steps: the worker's and the goroutines'.
LEMMA FlagsOfNone ==
  ASSUME TypeInv, Flags, AlertsGrow, UNCHANGED <<tx, pc>>,
         \A p \in Products : FlagTrue(p, products[p])',
         \A p \in Products : FlagTrue(p, scan.rows[p])'
  PROVE  Flags'
<1>1. ASSUME NEW t \in Sessions PROVE SessionFlags(t)'
  <2>1. ASSUME NEW p \in Products PROVE FlagTrue(p, tx[t].work[p])'
    <3>1. PICK row \in Row : row = tx[t].work[p]
      BY SessionTypes
    <3>2. FlagTrue(p, row)'
      BY <3>1, FlagStays DEF Flags, SessionFlags
    <3> QED BY <3>1, <3>2 DEF FlagTrue
  <2>2. ASSUME pc[t] \in {"save", "rowsave"} PROVE FlagTrue(Target(t), tx[t].row)'
    <3>1. Target(t) \in Products /\ tx[t].row \in Row
      BY <2>2, SessionTypes, LineTypes DEF TypeInv, Shape, SessionShape
    <3>2. PICK p \in Products, row \in Row : p = Target(t) /\ row = tx[t].row
      BY <3>1
    <3>3. FlagTrue(p, row)'
      BY <2>2, <3>2, FlagStays DEF Flags, SessionFlags
    <3> QED BY <3>2, <3>3 DEF FlagTrue, Target
  <2> QED BY <2>1, <2>2 DEF SessionFlags
<1> QED BY <1>1 DEF Flags

\* The tables' flags stay true while their rows do.
LEMMA TableFlags ==
  ASSUME TypeInv, Flags, AlertsGrow
  PROVE  /\ products' = products => \A p \in Products : FlagTrue(p, products[p])'
         /\ scan'.rows = scan.rows => \A p \in Products : FlagTrue(p, scan.rows[p])'
         /\ scan' = NoScan => \A p \in Products : FlagTrue(p, scan.rows[p])'
<1>1. ASSUME NEW p \in Products PROVE products' = products => FlagTrue(p, products[p])'
  <2>1. PICK row \in Row : row = products[p]
    BY DEF TypeInv, TypeOK
  <2>2. FlagTrue(p, row)'
    BY <2>1, FlagStays DEF Flags
  <2> QED BY <2>1, <2>2 DEF FlagTrue
<1>2. ASSUME NEW p \in Products PROVE scan'.rows = scan.rows => FlagTrue(p, scan.rows[p])'
  <2>1. PICK row \in Row : row = scan.rows[p]
    BY DEF TypeInv, TypeOK
  <2>2. FlagTrue(p, row)'
    BY <2>1, FlagStays DEF Flags
  <2> QED BY <2>1, <2>2 DEF FlagTrue
<1>3. scan' = NoScan => \A p \in Products : FlagTrue(p, scan.rows[p])'
  BY DEF NoScan, FlagTrue, BlankRow
<1> QED BY <1>1, <1>2, <1>3

LEMMA WorkerFlags ==
  ASSUME TypeInv, Flags, Worker
  PROVE  Flags'
<1>1. CASE ScanList
  <2>1. UNCHANGED <<tx, pc, products, alerts, sent, missed>> /\ scan'.rows = products
    BY <1>1 DEF ScanList
  <2>2. AlertsGrow
    BY <2>1 DEF AlertsGrow, Recorded, Told, GivenUp
  <2>3. \A p \in Products : FlagTrue(p, products[p])'
    BY <2>1, <2>2, TableFlags
  <2>4. \A p \in Products : FlagTrue(p, scan.rows[p])'
    BY <2>1, <2>3 DEF FlagTrue
  <2> QED BY <2>1, <2>2, <2>3, <2>4, FlagsOfNone
<1>2. ASSUME NEW p \in Products, ScanVisit(p) PROVE Flags'
  <2>1. /\ UNCHANGED <<tx, pc, sent, missed>> /\ products' = [products EXCEPT ![p] = ScannedRow(p)]
        /\ scan' = NoScan \/ scan'.rows = scan.rows
    BY <1>2 DEF ScanVisit, TypeInv, TypeOK
  <2>2. PICK row \in Row : row = scan.rows[p]
    BY DEF TypeInv, TypeOK
  <2>3. SpawnAlert(p, row, "worker") /\ FlagTrue(p, row)
    BY <1>2, <2>2 DEF ScanVisit, Flags
  <2>4. AlertsGrow /\ FlagTrue(p, HandleThreshold(row))'
    BY <2>1, <2>3, HandledFlag
  <2>5. \A q \in Products : FlagTrue(q, scan.rows[q])'
    BY <2>1, <2>4, TableFlags
  <2>6. ASSUME NEW q \in Products PROVE FlagTrue(q, products[q])'
    <3>1. CASE q = p
      <4>1. products'[p] = [products[p] EXCEPT !.notified = HandleThreshold(row).notified,
                                               !.cycle = HandleThreshold(row).cycle]
        BY <2>1, <2>2 DEF ScannedRow, TypeInv, TypeOK
      <4>2. products[p] \in Row
        BY DEF TypeInv, TypeOK
      <4>3. /\ products'[p].notified = HandleThreshold(row).notified
            /\ products'[p].cycle = HandleThreshold(row).cycle
        BY <4>1, <4>2 DEF Row
      <4> QED BY <2>4, <3>1, <4>3 DEF FlagTrue
    <3>2. CASE q # p
      <4>1. PICK old \in Row : old = products[q]
        BY DEF TypeInv, TypeOK
      <4>2. FlagTrue(q, old)'
        BY <2>4, <4>1, FlagStays DEF Flags
      <4>3. products'[q] = old
        BY <2>1, <3>2, <4>1 DEF TypeInv, TypeOK
      <4> QED BY <4>2, <4>3 DEF FlagTrue
    <3> QED BY <3>1, <3>2
  <2> QED BY <2>1, <2>4, <2>5, <2>6, FlagsOfNone
<1> QED BY <1>1, <1>2 DEF Worker

\* A process that crashes forgets what it had read.
LEMMA CrashFlags ==
  ASSUME TypeInv, FlagInv, ApiCrash \/ WorkerCrash
  PROVE  Flags' /\ Diligent'
<1>1. AlertsGrow /\ Diligent' /\ products' = products
  BY LoseFlags DEF FlagInv, ApiCrash, WorkerCrash
<1>2. \A p \in Products : FlagTrue(p, products[p])'
  BY <1>1, TableFlags DEF FlagInv
<1>3. \A p \in Products : FlagTrue(p, scan.rows[p])'
  BY <1>1, TableFlags DEF FlagInv, ApiCrash, WorkerCrash
<1>4. CASE ApiCrash
  <2>1. ASSUME NEW s \in Sessions PROVE SessionFlags(s)'
    <3>1. tx'[s].work = [p \in Products |-> BlankRow] /\ pc'[s] = "idle"
      BY <1>4 DEF ApiCrash, IdleTx
    <3> QED BY <3>1, BlankFlags
  <2> QED BY <1>1, <1>2, <1>3, <2>1 DEF Flags
<1>5. CASE WorkerCrash
  BY <1>1, <1>2, <1>3, <1>5, FlagsOfNone DEF FlagInv, WorkerCrash
<1> QED BY <1>4, <1>5

\* Every step keeps every copy of a flag true.
LEMMA FlagStep == TypeInv /\ FlagInv /\ [Next]_vars => FlagInv'
<1> SUFFICES ASSUME TypeInv, FlagInv, [Next]_vars PROVE Flags' /\ Diligent'
  BY DEF FlagInv
<1>0. Flags /\ Diligent
  BY DEF FlagInv
<1>1. CASE ApiCrash \/ WorkerCrash
  BY <1>1, CrashFlags
<1>2. ASSUME UNCHANGED <<sent, alerts, missed>> PROVE Diligent'
  BY <1>0, <1>2, AlertsStay
<1>3. ASSUME NEW s \in Sessions, Request(s) PROVE Flags' /\ Diligent'
  <2>1. UNCHANGED <<sent, alerts, missed>>
    BY <1>3 DEF Request, OrderStart, CancelStart, UpdateStatus, AdjustStart, RowRead,
                BulkSetThreshold
  <2> QED BY <1>0, <1>2, <1>3, <2>1, RequestFlags
<1>4. ASSUME NEW p, NEW row, NEW who, SpawnAlert(p, row, who), UNCHANGED <<sent, missed>>
      PROVE  Diligent'
  <2>1. TablesGrow /\ \A a \in alerts' : a \in alerts \/ a.next = 1
    BY <1>4 DEF TablesGrow, SpawnAlert, SpawnFor
  <2> QED BY <1>0, <2>1, DiligentKept
<1>5. ASSUME NEW s \in Sessions, Serve(s) PROVE Flags' /\ Diligent'
  <2>1. AdjustSave(s) \/ UNCHANGED <<sent, alerts, missed>>
    BY <1>5 DEF Serve, CheckLine, NothingToOrder, InsertOrder, CancelSave, AdjustRead,
                AdjustRefuse, Commit, ClearCart, DeadlockVictim, SettingsSave,
                UpdateSave, SaveRow, Rollback
  <2>2. ASSUME AdjustSave(s) PROVE Diligent'
    BY <1>4, <2>2 DEF AdjustSave
  <2> QED BY <1>0, <1>2, <1>5, <2>1, <2>2, ServeFlags
<1>6. CASE Worker
  <2>1. ASSUME NEW p \in Products, ScanVisit(p) PROVE Diligent'
    BY <1>4, <2>1 DEF ScanVisit
  <2>2. ASSUME ScanList PROVE Diligent'
    <3>1. UNCHANGED <<sent, alerts, missed>>
      BY <2>2 DEF ScanList
    <3> QED BY <1>2, <3>1
  <2> QED BY <1>0, <1>6, <2>1, <2>2, WorkerFlags DEF Worker
<1>7. ASSUME NEW a \in alerts, DeliverAlert(a) PROVE Flags' /\ Diligent'
  <2>1. UNCHANGED <<tx, pc, products, scan>>
    BY <1>7 DEF DeliverAlert
  <2> QED BY <1>0, <1>7, <2>1, DeliverFlags, TableFlags, FlagsOfNone
<1>8. ASSUME NEW a \in alerts, NotifyFails(a) \/ ListAdminsFails(a) PROVE Flags' /\ Diligent'
  <2>1. PICK last \in DOMAIN Recipients : PassOver(a, last)
    BY <1>8, FailureTypes
  <2>2. UNCHANGED <<tx, pc, products, scan>>
    BY <2>1 DEF PassOver
  <2> QED BY <1>0, <2>1, <2>2, PassOverFlags, TableFlags, FlagsOfNone
<1>9. CASE UNCHANGED vars
  <2>1. UNCHANGED <<tx, pc, products, scan, sent, alerts, missed>>
    BY <1>9 DEF vars
  <2> QED BY <1>0, <1>2, <2>1, AlertsStay, TableFlags, FlagsOfNone
<1> QED BY <1>1, <1>3, <1>5, <1>6, <1>7, <1>8, <1>9 DEF Next, Deliver

LEMMA InitFlags == Init => FlagInv
<1> SUFFICES ASSUME Init PROVE Flags /\ Diligent
  BY DEF FlagInv
<1>1. \A p \in Products : ~products[p].notified /\ ~scan.rows[p].notified
  BY DEF Init, NoScan, BlankRow
<1>2. \A s \in Sessions : pc[s] = "idle" /\ \A p \in Products : ~tx[s].work[p].notified
  BY DEF Init, IdleTx, BlankRow
<1>3. Diligent
  BY DEF Init, Diligent
<1> QED BY <1>1, <1>2, <1>3 DEF Flags, SessionFlags, FlagTrue

\* AlertNotLost, for any number of requests, scans and goroutines, any failures of their
\* look-ups and notifications, and any crashes: no flag is written, or written again from a
\* stale row, whose alert is not recorded or on its way, unless the notification of every
\* recipient failed or went with its process.
THEOREM AlertsAreNotLost == Spec => []AlertNotLost
<1>1. FlagInv => AlertNotLost
  <2> SUFFICES ASSUME FlagInv, NEW p \in Products, products[p].notified
               PROVE  LET key == [product |-> p, cycle |-> products[p].cycle]
                      IN \/ AlertKey(key) \in Keys(sent) \cup Keys(alerts)
                         \/ \A i \in DOMAIN Recipients : Notification(key, i) \in missed
    BY DEF AlertNotLost
  <2>1. Recorded(p, products[p].cycle)
    BY DEF FlagInv, Flags, FlagTrue
  <2> QED BY <2>1 DEF Recorded, Told, GivenUp, Keys, AlertKey
<1>2. Spec => []FlagInv
  BY InitFlags, FlagStep, TypesHold, PTL DEF Spec
<1> QED BY <1>1, <1>2, PTL

-----------------------------------------------------------------------------
(* Counting in sequences. *)

Count(seq, members) == Cardinality(Places(seq, members))

\* A sequence has finitely many places.
LEMMA CountType ==
  ASSUME NEW S, NEW seq \in Seq(S), NEW members
  PROVE  IsFiniteSet(Places(seq, members)) /\ Count(seq, members) \in Nat
<1>1. Len(seq) \in Nat /\ Places(seq, members) \in SUBSET (1 .. Len(seq))
  BY DEF Places
<1>2. IsFiniteSet(1 .. Len(seq))
  BY <1>1, FS_Interval
<1>3. IsFiniteSet(Places(seq, members))
  BY <1>1, <1>2, FS_Subset
<1> QED BY <1>3, FS_CardinalityType DEF Count

LEMMA CountNone ==
  ASSUME NEW seq, NEW members, \A i \in DOMAIN seq : seq[i] \notin members
  PROVE  Places(seq, members) = {} /\ Count(seq, members) = 0
<1>1. Places(seq, members) = {}
  BY DEF Places
<1> QED BY <1>1, FS_EmptySet DEF Count

LEMMA CountEmpty ==
  ASSUME NEW members
  PROVE  Places(<<>>, members) = {} /\ Count(<<>>, members) = 0
  BY CountNone

\* As many places, some further on.
LEMMA Shifted ==
  ASSUME NEW P \in SUBSET Nat, IsFiniteSet(P), NEW n \in Nat
  PROVE  /\ IsFiniteSet({n + i : i \in P})
         /\ Cardinality({n + i : i \in P}) = Cardinality(P)
<1> DEFINE Q == {n + i : i \in P}
           f == [i \in P |-> n + i]
<1>1. f \in [P -> Q]
  OBVIOUS
<1>2. \A i, k \in P : f[i] = f[k] => i = k
  OBVIOUS
<1>3. \A k \in Q : \E i \in P : f[i] = k
  OBVIOUS
<1>4. f \in Bijection(P, Q)
  <2> HIDE DEF f, Q
  <2>1. DOMAIN f = P
    BY <1>1
  <2> QED BY <1>1, <1>2, <1>3, <2>1, Zenon DEF Bijection, Injection, IsInjective, Surjection
<1>5. ExistsBijection(P, Q)
  BY <1>4 DEF ExistsBijection
<1> QED BY <1>5, FS_Bijection

LEMMA CountAppend ==
  ASSUME NEW S, NEW seq \in Seq(S), NEW e \in S, NEW members
  PROVE  Count(Append(seq, e), members) = Count(seq, members) + (IF e \in members THEN 1 ELSE 0)
<1>1. IsFiniteSet(Places(seq, members)) /\ Count(seq, members) \in Nat
  BY CountType
<1>2. Len(seq) \in Nat /\ Len(seq) + 1 \notin Places(seq, members)
  BY DEF Places
<1>3. /\ DOMAIN Append(seq, e) = 1 .. Len(seq) + 1 /\ DOMAIN seq = 1 .. Len(seq)
      /\ \A i \in 1 .. Len(seq) : Append(seq, e)[i] = seq[i]
      /\ Append(seq, e)[Len(seq) + 1] = e
  OBVIOUS
<1>4. CASE e \in members
  <2>1. Places(Append(seq, e), members) = Places(seq, members) \cup {Len(seq) + 1}
    BY <1>2, <1>3, <1>4 DEF Places
  <2> QED BY <1>1, <1>2, <1>4, <2>1, FS_AddElement DEF Count
<1>5. CASE e \notin members
  <2>1. Places(Append(seq, e), members) = Places(seq, members)
    BY <1>2, <1>3, <1>5 DEF Places
  <2> QED BY <1>1, <1>5, <2>1 DEF Count
<1> QED BY <1>4, <1>5

LEMMA CountConcat ==
  ASSUME NEW S, NEW a \in Seq(S), NEW b \in Seq(S), NEW members
  PROVE  /\ Count(a \o b, members) = Count(a, members) + Count(b, members)
         /\ Places(a, members) = {} /\ Places(b, members) = {} => Places(a \o b, members) = {}
<1> DEFINE moved == {Len(a) + i : i \in Places(b, members)}
<1>1. IsFiniteSet(Places(a, members)) /\ IsFiniteSet(Places(b, members))
  BY CountType
<1>2. Places(b, members) \in SUBSET Nat /\ Len(a) \in Nat /\ Len(b) \in Nat
  BY DEF Places
<1>3. IsFiniteSet(moved) /\ Cardinality(moved) = Count(b, members)
  BY <1>1, <1>2, Shifted DEF Count
<1>4. /\ DOMAIN (a \o b) = 1 .. Len(a) + Len(b)
      /\ DOMAIN a = 1 .. Len(a) /\ DOMAIN b = 1 .. Len(b)
      /\ \A i \in 1 .. Len(a) : (a \o b)[i] = a[i]
      /\ \A i \in 1 .. Len(b) : (a \o b)[Len(a) + i] = b[i]
  OBVIOUS
<1>5. ASSUME NEW k \in 1 .. Len(a) + Len(b)
      PROVE  k \in 1 .. Len(a) \/ \E i \in 1 .. Len(b) : k = Len(a) + i
  <2>1. CASE k <= Len(a)
    BY <1>2, <2>1
  <2>2. CASE k > Len(a)
    <3>1. k - Len(a) \in 1 .. Len(b) /\ k = Len(a) + (k - Len(a))
      BY <1>2, <2>2
    <3> QED BY <3>1, Zenon
  <2> QED BY <1>2, <2>1, <2>2
<1>6. Places(a \o b, members) = Places(a, members) \cup moved
  <2>1. ASSUME NEW k \in Places(a \o b, members) PROVE k \in Places(a, members) \cup moved
    BY <1>4, <1>5 DEF Places
  <2>2. ASSUME NEW k \in Places(a, members) \cup moved PROVE k \in Places(a \o b, members)
    BY <1>2, <1>4 DEF Places
  <2> QED BY <2>1, <2>2
<1>7. Places(a, members) \cap moved = {}
  BY <1>2, <1>4 DEF Places
<1>8. Count(a, members) \in Nat /\ Count(b, members) \in Nat
  BY CountType
<1>9. Cardinality(Places(a, members) \cup moved) = Count(a, members) + Count(b, members)
  <2> HIDE DEF moved
  <2>1. Cardinality(Places(a, members) \cap moved) = 0
    BY <1>7, FS_EmptySet
  <2>2. Cardinality(Places(a, members) \cup moved)
          = Cardinality(Places(a, members)) + Cardinality(moved)
              - Cardinality(Places(a, members) \cap moved)
    BY <1>1, <1>3, FS_Union
  <2> QED BY <1>3, <1>8, <2>1, <2>2 DEF Count
<1> QED BY <1>6, <1>9 DEF Count

LEMMA CountTail ==
  ASSUME NEW S, NEW seq \in Seq(S), seq # <<>>, NEW members
  PROVE  Count(seq, members)
           = Count(Tail(seq), members) + (IF Head(seq) \in members THEN 1 ELSE 0)
<1> DEFINE moved == {1 + i : i \in Places(Tail(seq), members)}
<1>1. Tail(seq) \in Seq(S) /\ Len(seq) \in Nat \ {0}
  OBVIOUS
<1>2. IsFiniteSet(Places(Tail(seq), members)) /\ Count(Tail(seq), members) \in Nat
  BY <1>1, CountType
<1>3. Places(Tail(seq), members) \in SUBSET Nat
  BY <1>1 DEF Places
<1>4. IsFiniteSet(moved) /\ Cardinality(moved) = Count(Tail(seq), members)
  BY <1>2, <1>3, Shifted DEF Count
<1>5. /\ DOMAIN seq = 1 .. Len(seq) /\ DOMAIN Tail(seq) = 1 .. Len(seq) - 1
      /\ \A i \in 1 .. Len(seq) - 1 : Tail(seq)[i] = seq[1 + i]
      /\ seq[1] = Head(seq)
  BY <1>1
<1>6. 1 \notin moved
  BY <1>3, <1>5 DEF Places
<1>7. ASSUME NEW k \in 1 .. Len(seq) PROVE k = 1 \/ \E i \in 1 .. Len(seq) - 1 : k = 1 + i
  <2>1. k = 1 \/ k - 1 \in 1 .. Len(seq) - 1
    BY <1>1
  <2> QED BY <2>1
<1>8. Places(seq, members) = moved \cup {i \in {1} : seq[1] \in members}
  <2>1. ASSUME NEW k \in Places(seq, members)
        PROVE  k \in moved \cup {i \in {1} : seq[1] \in members}
    <3>1. k \in 1 .. Len(seq) /\ seq[k] \in members
      BY <1>5, <2>1 DEF Places
    <3>2. CASE k = 1
      BY <3>1, <3>2
    <3>3. ASSUME NEW i \in 1 .. Len(seq) - 1, k = 1 + i PROVE k \in moved
      <4>1. i \in Places(Tail(seq), members)
        BY <1>5, <3>1, <3>3 DEF Places
      <4> QED BY <3>3, <4>1
    <3> QED BY <1>7, <3>1, <3>2, <3>3
  <2>2. ASSUME NEW k \in moved \cup {i \in {1} : seq[1] \in members}
        PROVE  k \in Places(seq, members)
    BY <1>1, <1>5 DEF Places
  <2> QED BY <2>1, <2>2
<1>9. CASE Head(seq) \in members
  <2>1. Places(seq, members) = moved \cup {1}
    BY <1>5, <1>8, <1>9
  <2> QED BY <1>2, <1>4, <1>6, <1>9, <2>1, FS_AddElement DEF Count
<1>10. CASE Head(seq) \notin members
  <2>1. Places(seq, members) = moved
    BY <1>5, <1>8, <1>10
  <2> QED BY <1>2, <1>4, <1>10, <2>1 DEF Count
<1> QED BY <1>9, <1>10

-----------------------------------------------------------------------------
(* Orders and the movements they cause. *)

TheLine(p, qty) == {[product |-> p, qty |-> qty]}

\* What a transaction of this kind does to the stock for a line of so many units.
Signed(kind, qty) == IF kind = "order" THEN -qty ELSE qty

\* How far the transaction of s has got with the lines for so many units of p.
Done(s, p, qty) ==
  Count(tx[s].entries[p], Caused(tx[s].order, tx[s].kind, Signed(tx[s].kind, qty)))
ToDo(s, p, qty) == Count(tx[s].todo, TheLine(p, qty))
Wanting(s, p, qty) == Count(tx[s].lines, TheLine(p, qty))

Booked(o, p, qty) == Count(ledger[p], Caused(o, "order", -qty))
Returned(o, p, qty) == Count(ledger[p], Caused(o, "cancel", qty))
Ordered(o, p, qty) == Count(orders[o].lines, TheLine(p, qty))

\* Every movement a transaction has written is its order's and its kind's; those for its
\* order and the lines still to do make up the order; its order is not there yet, and
\* locked, when it creates it, and has the lines it read when it cancels it.
EntriesSigned(s) ==
  \A p \in Products : \A i \in DOMAIN tx[s].entries[p] :
    /\ tx[s].entries[p][i].ref = tx[s].order
    /\ tx[s].order # None => tx[s].entries[p][i].reason = tx[s].kind

Progress(s) ==
  tx[s].order # None =>
    \A p \in Products, qty \in Int : Done(s, p, qty) + ToDo(s, p, qty) = Wanting(s, p, qty)

OrderHeld(s) ==
  /\ tx[s].kind = "order" /\ tx[s].order # None
       => orders[tx[s].order] = NoOrder /\ locks[tx[s].order] = s
  /\ tx[s].kind = "cancel" => orders[tx[s].order].lines = tx[s].lines

SessionBooks(s) ==
  /\ pc[s] = "check" => tx[s].order = None /\ \A p \in Products : tx[s].entries[p] = <<>>
  /\ pc[s] = "commit" => tx[s].todo = <<>>
  /\ EntriesSigned(s)
  /\ Progress(s)
  /\ OrderHeld(s)

\* What the ledger says of an order that exists, or does not.
OrderBooks(o) ==
  \A p \in Products, qty \in Int :
    /\ Booked(o, p, qty) = Ordered(o, p, qty)
    /\ "status" \notin Kinds =>
         /\ orders[o].status = "cancelled" => Returned(o, p, qty) >= Ordered(o, p, qty)
         /\ orders[o].status # "cancelled" => MovementsOf(o, p, "cancel", qty) = {}

Books ==
  /\ \A o \in Orders : OrderBooks(o)
  /\ \A s \in Sessions : SessionBooks(s)

\* What a step of s leaves to the other sessions.
Spared(s) ==
  /\ \A t \in Sessions \ {s} : tx'[t] = tx[t] /\ pc'[t] = pc[t]
  /\ \A o \in Orders : orders[o].lines # <<>> => orders'[o].lines = orders[o].lines
  /\ \A o \in Orders, t \in Sessions \ {s} :
       locks[o] = t /\ orders[o] = NoOrder => locks'[o] = t /\ orders'[o] = NoOrder

LEMMA BooksOfOne ==
  ASSUME TypeInv, Books, NEW s \in Sessions, Spared(s), SessionBooks(s)',
         \A o \in Orders : OrderBooks(o)'
  PROVE  Books'
<1>1. ASSUME NEW t \in Sessions \ {s} PROVE SessionBooks(t)'
  <2>1. SessionBooks(t) /\ SessionShape(t)
    BY DEF Books, TypeInv, Shape
  <2>2. tx'[t] = tx[t] /\ pc'[t] = pc[t]
    BY DEF Spared
  <2>3. EntriesSigned(t)'
    BY <2>1, <2>2 DEF SessionBooks, EntriesSigned
  <2>4. Progress(t)'
    BY <2>1, <2>2 DEF SessionBooks, Progress, Done, ToDo, Wanting
  <2>5. OrderHeld(t)'
    <3>1. tx[t].order \in Orders \cup {None}
      BY SessionTypes
    <3>2. ASSUME tx[t].kind = "order", tx[t].order # None
          PROVE  (orders[tx[t].order] = NoOrder /\ locks[tx[t].order] = t)'
      BY <2>1, <2>2, <3>1, <3>2 DEF SessionBooks, OrderHeld, Spared
    <3>3. ASSUME tx[t].kind = "cancel" PROVE (orders[tx[t].order].lines = tx[t].lines)'
      BY <2>1, <2>2, <3>3 DEF SessionBooks, OrderHeld, SessionShape, Spared
    <3> QED BY <2>2, <3>2, <3>3 DEF OrderHeld
  <2> QED BY <2>1, <2>2, <2>3, <2>4, <2>5 DEF SessionBooks
<1> QED BY <1>1 DEF Books

\* While the tables of orders and movements stay, so does what one says of the other.
LEMMA TablesStay ==
  ASSUME Books, UNCHANGED <<orders, ledger>>
  PROVE  \A o \in Orders : OrderBooks(o)'
  BY DEF Books, OrderBooks, Booked, Returned, Ordered, MovementsOf

\* A transaction that has not begun.
LEMMA FreshBooks ==
  ASSUME NEW s \in Sessions, pc'[s] # "commit", tx'[s].order = None, tx'[s].kind # "cancel",
         \A p \in Products : tx'[s].entries[p] = <<>>
  PROVE  SessionBooks(s)'
<1>1. EntriesSigned(s)'
  BY DEF EntriesSigned
<1> QED BY <1>1 DEF SessionBooks, Progress, OrderHeld

LEMMA RequestBooks ==
  ASSUME TypeInv, Books, NEW s \in Sessions, Request(s)
  PROVE  Books'
<1>1. CASE UNCHANGED <<orders, ledger, locks>>
  <2>1. \A o \in Orders : OrderBooks(o)'
    BY <1>1, TablesStay
  <2> DEFINE Rest == /\ \A t \in Sessions \ {s} : tx'[t] = tx[t] /\ pc'[t] = pc[t]
                     /\ pc'[s] # "commit"
  <2>2. ASSUME Rest, SessionBooks(s)' PROVE Books'
    <3>1. Spared(s)
      BY <1>1, <2>2 DEF Spared
    <3> QED BY <2>1, <2>2, <3>1, BooksOfOne
  <2>3. ASSUME Rest, tx'[s].order = None, tx'[s].kind # "cancel",
               tx'[s].entries = IdleTx.entries
        PROVE  Books'
    <3>1. \A p \in Products : tx'[s].entries[p] = <<>>
      BY <2>3 DEF IdleTx
    <3> QED BY <2>2, <2>3, <3>1, FreshBooks
  <2>4. ASSUME NEW u \in Users, OrderStart(s, u) PROVE Books'
    <3>1. /\ Rest /\ tx'[s].order = None /\ tx'[s].kind # "cancel"
          /\ tx'[s].entries = IdleTx.entries
      BY <2>4 DEF OrderStart, Start, IdleTx, TypeInv, TypeOK
    <3> QED BY <2>3, <3>1
  <2>5. ASSUME NEW o \in Orders, CancelStart(s, o) PROVE Books'
    <3>1. /\ tx'[s].order = o /\ tx'[s].kind = "cancel" /\ tx'[s].todo = orders[o].lines
          /\ tx'[s].lines = orders[o].lines /\ pc'[s] = "ordersave"
          /\ \A p \in Products : tx'[s].entries[p] = <<>>
      BY <2>5 DEF CancelStart, Start, IdleTx, TypeInv, TypeOK
    <3>2. Rest
      BY <2>5 DEF CancelStart, TypeInv, TypeOK
    <3>3. EntriesSigned(s)'
      BY <3>1 DEF EntriesSigned
    <3>4. Progress(s)'
      <4>1. orders[o].lines \in Seq(Line)
        BY DEF TypeInv, TypeOK
      <4>2. ASSUME NEW p \in Products, NEW qty \in Int
            PROVE  Done(s, p, qty)' + ToDo(s, p, qty)' = Wanting(s, p, qty)'
        <5>1. Count(orders[o].lines, TheLine(p, qty)) \in Nat
          BY <4>1, CountType
        <5>2. Done(s, p, qty)' = 0
          BY <3>1, CountEmpty DEF Done
        <5> QED BY <3>1, <5>1, <5>2 DEF ToDo, Wanting
      <4> QED BY <4>2 DEF Progress
    <3>5. OrderHeld(s)'
      BY <1>1, <3>1 DEF OrderHeld
    <3> QED BY <2>2, <3>1, <3>2, <3>3, <3>4, <3>5 DEF SessionBooks
  <2>6. ASSUME NEW p \in Products, NEW qty \in Quantities, AdjustStart(s, p, qty) PROVE Books'
    <3>1. /\ Rest /\ tx'[s].order = None /\ tx'[s].kind # "cancel"
          /\ tx'[s].entries = IdleTx.entries
      BY <2>6 DEF AdjustStart, Start, IdleTx, TypeInv, TypeOK
    <3> QED BY <2>3, <3>1
  <2>7. ASSUME NEW kind \in {"settings", "update"}, NEW p \in Products, RowRead(s, kind, p)
        PROVE  Books'
    <3>1. /\ Rest /\ tx'[s].order = None /\ tx'[s].kind # "cancel"
          /\ tx'[s].entries = IdleTx.entries
      BY <2>7 DEF RowRead, Start, IdleTx, TypeInv, TypeOK
    <3> QED BY <2>3, <3>1
  <2>8. ASSUME UNCHANGED <<tx, pc>> PROVE Books'
    <3>1. SessionBooks(s)'
      BY <1>1, <2>8 DEF Books, SessionBooks, EntriesSigned, Progress, Done, ToDo, Wanting,
                        OrderHeld
    <3>2. Spared(s)
      BY <1>1, <2>8 DEF Spared
    <3> QED BY <2>1, <3>1, <3>2, BooksOfOne
  <2> QED BY <2>4, <2>5, <2>6, <2>7, <2>8 DEF Request, UpdateStatus, BulkSetThreshold
<1>2. ASSUME NEW o \in Orders, NEW status \in Statuses, UpdateStatus(s, o, status)
      PROVE  Books'
  <2>1. /\ UNCHANGED <<tx, pc, ledger, locks>> /\ orders[o] # NoOrder
        /\ orders' = [orders EXCEPT ![o].status = status] /\ "status" \in Kinds
    BY <1>2 DEF UpdateStatus, Start
  <2>2. /\ \A other \in Orders : orders'[other].lines = orders[other].lines
        /\ \A other \in Orders : orders[other] = NoOrder => orders'[other] = NoOrder
    BY <2>1 DEF TypeInv, TypeOK
  <2>3. Spared(s)
    BY <2>1, <2>2 DEF Spared
  <2>4. \A other \in Orders : OrderBooks(other)'
    BY <2>1, <2>2 DEF Books, OrderBooks, Booked, Ordered
  <2>5. SessionBooks(s)'
    <3>1. SessionBooks(s) /\ SessionShape(s) /\ tx[s].order \in Orders \cup {None}
      BY SessionTypes DEF Books, TypeInv, Shape
    <3>2. OrderHeld(s)'
      BY <2>1, <2>2, <3>1 DEF SessionBooks, OrderHeld, SessionShape
    <3> QED
      BY <2>1, <3>1, <3>2 DEF SessionBooks, EntriesSigned, Progress, Done, ToDo, Wanting
  <2> QED BY <2>3, <2>4, <2>5, BooksOfOne
<1>3. (\E o \in Orders, status \in Statuses : UpdateStatus(s, o, status))
        \/ UNCHANGED <<orders, ledger, locks>>
  BY DEF Request, OrderStart, CancelStart, AdjustStart, RowRead, BulkSetThreshold
<1> QED BY <1>1, <1>2, <1>3


\* Steps that leave the tables of orders and movements alone, and no lock of another's.
LEMMA QuietBooks ==
  ASSUME TypeInv, Books, NEW s \in Sessions, SessionBooks(s)', UNCHANGED <<orders, ledger>>,
         \A t \in Sessions \ {s} : tx'[t] = tx[t] /\ pc'[t] = pc[t],
         \A o \in Orders, t \in Sessions \ {s} : locks[o] = t => locks'[o] = t
  PROVE  Books'
<1>1. Spared(s)
  BY DEF Spared
<1> QED BY <1>1, TablesStay, BooksOfOne

LEMMA RollbackBooks ==
  ASSUME TypeInv, Books, NEW s \in Sessions, Rollback(s)
  PROVE  Books'
<1>1. /\ pc'[s] = "idle" /\ tx'[s] = IdleTx /\ UNCHANGED <<orders, ledger>>
      /\ \A t \in Sessions \ {s} : tx'[t] = tx[t] /\ pc'[t] = pc[t]
      /\ \A o \in Orders, t \in Sessions \ {s} : locks[o] = t => locks'[o] = t
  BY DEF Rollback, Unlocked, TypeInv, TypeOK
<1>2. SessionBooks(s)'
  BY <1>1, FreshBooks DEF IdleTx
<1> QED BY <1>1, <1>2, QuietBooks

LEMMA CheckLineBooks ==
  ASSUME TypeInv, Books, NEW s \in Sessions, CheckLine(s)
  PROVE  Books'
<1>1. tx[s] \in Tx /\ SessionBooks(s) /\ SessionShape(s) /\ pc[s] = "check"
  BY SessionTypes DEF CheckLine, Books, TypeInv, Shape
<1>2. tx'[s].order = tx[s].order /\ tx'[s].kind = tx[s].kind /\ tx'[s].entries = tx[s].entries
  BY <1>1 DEF CheckLine, TypeInv, TypeOK, Tx
<1>3. SessionBooks(s)'
  BY <1>1, <1>2, FreshBooks DEF CheckLine, SessionBooks, SessionShape
<1> QED BY <1>3, QuietBooks DEF CheckLine, TypeInv, TypeOK

LEMMA InsertOrderBooks ==
  ASSUME TypeInv, Books, NEW s \in Sessions, NEW o \in Orders, InsertOrder(s, o)
  PROVE  Books'
<1>1. tx[s] \in Tx /\ SessionBooks(s) /\ SessionShape(s) /\ pc[s] = "check"
  BY SessionTypes DEF InsertOrder, Books, TypeInv, Shape
<1>2. /\ tx'[s].order = o /\ tx'[s].kind = "order" /\ tx'[s].entries = tx[s].entries
      /\ tx'[s].todo = tx[s].lines /\ tx'[s].lines = tx[s].lines /\ pc'[s] = "read"
  BY <1>1 DEF InsertOrder, TypeInv, TypeOK, Tx, SessionShape
<1>3. orders[o] = NoOrder /\ locks[o] = None /\ locks' = [locks EXCEPT ![o] = s]
  BY DEF InsertOrder, FreshOrders
<1>4. \A p \in Products : tx'[s].entries[p] = <<>>
  BY <1>1, <1>2 DEF SessionBooks
<1>5. EntriesSigned(s)'
  BY <1>4 DEF EntriesSigned
<1>6. Progress(s)'
  <2>1. ASSUME NEW p \in Products, NEW qty \in Int
        PROVE  Done(s, p, qty)' + ToDo(s, p, qty)' = Wanting(s, p, qty)'
    <3>1. tx[s].lines \in Seq(Line)
      BY SessionTypes
    <3>2. Count(tx[s].lines, TheLine(p, qty)) \in Nat
      BY <3>1, CountType
    <3>3. Done(s, p, qty)' = 0
      BY <1>4, CountEmpty DEF Done
    <3> QED BY <1>2, <3>2, <3>3 DEF ToDo, Wanting
  <2> QED BY <2>1 DEF Progress
<1>7. OrderHeld(s)'
  BY <1>2, <1>3 DEF OrderHeld, InsertOrder, TypeInv, TypeOK
<1>8. SessionBooks(s)'
  BY <1>2, <1>5, <1>6, <1>7 DEF SessionBooks
<1>9. \A other \in Orders, t \in Sessions \ {s} : locks[other] = t => locks'[other] = t
  BY <1>3, ConstantsAssumption DEF TypeInv, TypeOK
<1> QED BY <1>8, <1>9, QuietBooks DEF InsertOrder, TypeInv, TypeOK

LEMMA CancelSaveBooks ==
  ASSUME TypeInv, Books, NEW s \in Sessions, CancelSave(s)
  PROVE  Books'
<1>1. /\ SessionBooks(s) /\ SessionShape(s) /\ pc[s] = "ordersave" /\ pc'[s] = "read"
      /\ UNCHANGED <<tx, orders, ledger>>
      /\ \A t \in Sessions \ {s} : pc'[t] = pc[t]
  BY DEF CancelSave, Books, TypeInv, Shape, TypeOK
<1>2. tx[s].kind = "cancel"
  BY <1>1 DEF SessionShape
<1>3. SessionBooks(s)'
  BY <1>1, <1>2 DEF SessionBooks, EntriesSigned, Progress, Done, ToDo, Wanting, OrderHeld
<1>4. \A o \in Orders, t \in Sessions \ {s} : locks[o] = t => locks'[o] = t
  BY ConstantsAssumption DEF CancelSave, MayWrite, TypeInv, TypeOK
<1> QED BY <1>1, <1>3, <1>4, QuietBooks

LEMMA AdjustReadBooks ==
  ASSUME TypeInv, Books, NEW s \in Sessions, AdjustRead(s)
  PROVE  Books'
<1>1. tx[s] \in Tx /\ SessionBooks(s) /\ pc[s] = "read"
  BY SessionTypes DEF AdjustRead, Books
<1>2. tx'[s] = [tx[s] EXCEPT !.row = View(s, Target(s))]
  BY DEF AdjustRead, TypeInv, TypeOK
<1>3. /\ tx'[s].order = tx[s].order /\ tx'[s].kind = tx[s].kind /\ tx'[s].todo = tx[s].todo
      /\ tx'[s].lines = tx[s].lines /\ tx'[s].entries = tx[s].entries
  BY <1>1, <1>2 DEF Tx
<1>4. /\ UNCHANGED <<orders, ledger, locks>> /\ pc'[s] = "save"
      /\ \A t \in Sessions \ {s} : tx'[t] = tx[t] /\ pc'[t] = pc[t]
  BY DEF AdjustRead, TypeInv, TypeOK
<1>5. SessionBooks(s)'
  BY <1>1, <1>3, <1>4 DEF SessionBooks, EntriesSigned, Progress, Done, ToDo, Wanting,
                          OrderHeld
<1> QED BY <1>4, <1>5, QuietBooks

\* The movement of a line is one for its order, with its units.
LEMMA MovementOfLine ==
  ASSUME TypeInv, NEW s \in Sessions, pc[s] = "save", tx[s].order # None,
         NEW qty \in Int
  PROVE  (AdjustMovement(s) \in Caused(tx[s].order, tx[s].kind, Signed(tx[s].kind, qty)))
           <=> (Head(tx[s].todo).qty = qty)
<1>1. Head(tx[s].todo).qty \in Int /\ AdjustedRow(s).stock \in Int
  BY LineTypes, AdjustedRowType DEF TypeInv, Shape, SessionShape
<1>2. tx[s].kind \in {"order", "cancel"}
  BY DEF TypeInv, Shape, SessionShape
<1>3. Delta(s) = Signed(tx[s].kind, Head(tx[s].todo).qty) /\ Reason(tx[s].kind) = tx[s].kind
  BY <1>2 DEF Delta, Signed, Reason
<1>4. (Delta(s) = Signed(tx[s].kind, qty)) <=> (Head(tx[s].todo).qty = qty)
  BY <1>1, <1>3 DEF Signed
<1> QED BY <1>1, <1>3, <1>4 DEF AdjustMovement, Caused

LEMMA AdjustSaveBooks ==
  ASSUME TypeInv, Books, NEW s \in Sessions, AdjustSave(s)
  PROVE  Books'
<1>1. /\ pc[s] = "save" /\ tx'[s] = AdjustedTx(s) /\ UNCHANGED <<orders, ledger>>
      /\ pc'[s] = IF Tail(tx[s].todo) = <<>> THEN "commit" ELSE "read"
      /\ locks' = [locks EXCEPT ![Target(s)] = s] /\ MayWrite(s, Target(s))
      /\ \A t \in Sessions \ {s} : tx'[t] = tx[t] /\ pc'[t] = pc[t]
  BY DEF AdjustSave, TypeInv, TypeOK
<1>2. /\ Target(s) \in Products /\ Head(tx[s].todo) \in Line /\ tx[s].todo # <<>>
      /\ tx[s].todo \in Seq(Line) /\ tx[s].entries \in [Products -> Seq(Movement)]
      /\ tx[s] \in Tx
  BY <1>1, LineTypes, SessionTypes DEF TypeInv, Shape, SessionShape
<1>3. /\ tx'[s].order = tx[s].order /\ tx'[s].kind = tx[s].kind
      /\ tx'[s].todo = Tail(tx[s].todo) /\ tx'[s].lines = tx[s].lines
      /\ AdjustMovement(s) \in Movement
  BY <1>1, AdjustedTxType
<1>4. /\ tx'[s].entries[Target(s)] = Append(tx[s].entries[Target(s)], AdjustMovement(s))
      /\ \A p \in Products \ {Target(s)} : tx'[s].entries[p] = tx[s].entries[p]
  BY <1>1, <1>2 DEF AdjustedTx, Tx
<1>5. SessionBooks(s)
  BY DEF Books
<1>6. EntriesSigned(s)'
  <2>1. AdjustMovement(s).ref = tx[s].order
    BY DEF AdjustMovement
  <2>2. tx[s].order # None => AdjustMovement(s).reason = tx[s].kind
    BY DEF AdjustMovement, Reason, TypeInv, Shape, SessionShape
  <2>3. ASSUME NEW p \in Products, NEW i \in DOMAIN tx'[s].entries[p]
        PROVE  \/ tx'[s].entries[p][i] = AdjustMovement(s)
               \/ i \in DOMAIN tx[s].entries[p] /\ tx'[s].entries[p][i] = tx[s].entries[p][i]
    <3>1. CASE p = Target(s)
      <4>1. tx[s].entries[p] \in Seq(Movement)
        BY <1>2
      <4>2. tx'[s].entries[p] = Append(tx[s].entries[p], AdjustMovement(s))
        BY <1>4, <3>1
      <4> QED BY <1>3, <2>3, <4>1, <4>2
    <3>2. CASE p # Target(s)
      BY <1>4, <2>3, <3>2
    <3> QED BY <3>1, <3>2
  <2> QED BY <1>3, <1>5, <2>1, <2>2, <2>3 DEF SessionBooks, EntriesSigned
<1>7. Progress(s)'
  <2> SUFFICES ASSUME tx[s].order # None, NEW p \in Products, NEW qty \in Int
               PROVE  Done(s, p, qty)' + ToDo(s, p, qty)' = Wanting(s, p, qty)'
    BY <1>3 DEF Progress
  <2> DEFINE C == Caused(tx[s].order, tx[s].kind, Signed(tx[s].kind, qty))
             done == Count(tx[s].entries[p], C)
             rest == Count(Tail(tx[s].todo), TheLine(p, qty))
             here == IF Head(tx[s].todo) \in TheLine(p, qty) THEN 1 ELSE 0
  <2>1. done + ToDo(s, p, qty) = Wanting(s, p, qty)
    BY <1>5 DEF SessionBooks, Progress, Done
  <2>2. ToDo(s, p, qty) = rest + here
    BY <1>2, CountTail DEF ToDo
  <2>3. done \in Nat /\ rest \in Nat
    <3>1. tx[s].entries[p] \in Seq(Movement) /\ Tail(tx[s].todo) \in Seq(Line)
      BY <1>2
    <3> QED BY <3>1, CountType
  <2>4. Done(s, p, qty)' = done + here
    <3>1. CASE p = Target(s)
      <4>1. here = IF AdjustMovement(s) \in C THEN 1 ELSE 0
        <5>1. (Head(tx[s].todo) \in TheLine(p, qty)) <=> (Head(tx[s].todo).qty = qty)
          BY <1>2, <3>1 DEF Target, TheLine, Line
        <5> QED BY <1>1, <5>1, MovementOfLine
      <4>2. tx[s].entries[p] \in Seq(Movement)
        BY <1>2
      <4>3. Count(Append(tx[s].entries[p], AdjustMovement(s)), C)
              = done + (IF AdjustMovement(s) \in C THEN 1 ELSE 0)
        BY <1>3, <4>2, CountAppend
      <4> QED BY <1>3, <1>4, <3>1, <4>1, <4>3 DEF Done
    <3>2. CASE p # Target(s)
      <4>1. here = 0
        BY <3>2 DEF Target, TheLine
      <4>2. Done(s, p, qty)' = done
        BY <1>3, <1>4, <3>2 DEF Done
      <4> QED BY <2>3, <4>1, <4>2
    <3> QED BY <3>1, <3>2
  <2>5. ToDo(s, p, qty)' = rest /\ Wanting(s, p, qty)' = Wanting(s, p, qty)
    BY <1>3 DEF ToDo, Wanting
  <2>6. here \in Nat
    OBVIOUS
  <2> HIDE DEF done, rest, here
  <2> QED BY <2>1, <2>2, <2>3, <2>4, <2>5, <2>6
<1>8. \A o \in Orders : locks'[o] = locks[o]
  BY <1>1, <1>2, ConstantsAssumption DEF TypeInv, TypeOK
<1>9. OrderHeld(s)'
  <2>1. tx[s].order \in Orders \cup {None}
    BY SessionTypes
  <2> QED BY <1>1, <1>3, <1>5, <1>8, <2>1 DEF SessionBooks, OrderHeld
<1>10. SessionBooks(s)'
  BY <1>1, <1>3, <1>6, <1>7, <1>9 DEF SessionBooks
<1> QED BY <1>1, <1>8, <1>10, QuietBooks


\* The committed movements are those there were and the transaction's.
LEMMA CommittedMovements ==
  ASSUME TypeInv, Books, NEW s \in Sessions, Commit(s), NEW o \in Orders, NEW p \in Products,
         NEW reason, NEW delta
  PROVE  LET C == Caused(o, reason, delta)
         IN /\ Count(ledger'[p], C) = Count(ledger[p], C) + Count(tx[s].entries[p], C)
            /\ Count(ledger[p], C) \in Nat /\ Count(tx[s].entries[p], C) \in Nat
            /\ o # tx[s].order \/ reason # tx[s].kind
                 => /\ Count(ledger'[p], C) = Count(ledger[p], C)
                    /\ Places(ledger[p], C) = {} => Places(ledger'[p], C) = {}
<1> DEFINE C == Caused(o, reason, delta)
<1>1. /\ ledger[p] \in Seq(Movement) /\ tx[s].entries[p] \in Seq(Movement)
      /\ ledger'[p] = ledger[p] \o tx[s].entries[p] /\ EntriesSigned(s) /\ o # None
  <2>1. tx[s].entries[p] \in Seq(Movement)
    BY SessionTypes
  <2>2. ledger[p] \in Seq(Movement)
    BY DEF TypeInv, TypeOK
  <2>3. ledger'[p] = ledger[p] \o tx[s].entries[p]
    BY DEF Commit
  <2> QED BY <2>1, <2>2, <2>3, ConstantsAssumption DEF Books, SessionBooks
<1>2. ASSUME o # tx[s].order \/ reason # tx[s].kind
      PROVE  Places(tx[s].entries[p], C) = {} /\ Count(tx[s].entries[p], C) = 0
  <2>1. \A i \in DOMAIN tx[s].entries[p] : tx[s].entries[p][i] \notin C
    BY <1>1, <1>2 DEF EntriesSigned, Caused
  <2> HIDE DEF C
  <2> QED BY <2>1, CountNone
<1> HIDE DEF C
<1>3. /\ Count(ledger'[p], C) = Count(ledger[p], C) + Count(tx[s].entries[p], C)
      /\ Places(ledger[p], C) = {} /\ Places(tx[s].entries[p], C) = {}
           => Places(ledger'[p], C) = {}
  BY <1>1, CountConcat
<1>4. Count(ledger[p], C) \in Nat /\ Count(tx[s].entries[p], C) \in Nat
  BY <1>1, CountType
<1>5. /\ Count(ledger'[p], C) = Count(ledger[p], C) + Count(tx[s].entries[p], C)
      /\ Count(ledger[p], C) \in Nat /\ Count(tx[s].entries[p], C) \in Nat
      /\ o # tx[s].order \/ reason # tx[s].kind
           => /\ Count(ledger'[p], C) = Count(ledger[p], C)
              /\ Places(ledger[p], C) = {} => Places(ledger'[p], C) = {}
  BY <1>2, <1>3, <1>4
<1> QED BY <1>5 DEF C

\* A transaction that commits has done all of its lines.
LEMMA AllDone ==
  ASSUME TypeInv, Books, NEW s \in Sessions, pc[s] = "commit", tx[s].order # None,
         NEW p \in Products, NEW qty \in Int
  PROVE  Done(s, p, qty) = Wanting(s, p, qty) /\ Done(s, p, qty) \in Nat
<1>1. ToDo(s, p, qty) = 0
  BY CountEmpty DEF Books, SessionBooks, ToDo
<1>2. Done(s, p, qty) + ToDo(s, p, qty) = Wanting(s, p, qty)
  BY DEF Books, SessionBooks, Progress
<1>3. tx[s].entries[p] \in Seq(Movement)
  BY SessionTypes
<1>4. Done(s, p, qty) \in Nat
  BY <1>3, CountType DEF Done
<1> QED BY <1>1, <1>2, <1>4

\* The order of a transaction has its movements when the transaction commits.
LEMMA CommittedBooks ==
  ASSUME TypeInv, Books, NEW s \in Sessions, Commit(s), NEW o \in Orders, tx[s].order = o
  PROVE  OrderBooks(o)'
<1>1. /\ pc[s] = "commit" /\ o # None /\ SessionBooks(s) /\ SessionShape(s) /\ OrderBooks(o)
      /\ orders'[o] = CommittedOrder(s)
  BY ConstantsAssumption DEF Commit, Books, TypeInv, TypeOK, Shape
<1> SUFFICES ASSUME NEW p \in Products, NEW qty \in Int
             PROVE  /\ Booked(o, p, qty)' = Ordered(o, p, qty)'
                    /\ "status" \notin Kinds =>
                         /\ orders'[o].status = "cancelled"
                              => Returned(o, p, qty)' >= Ordered(o, p, qty)'
                         /\ orders'[o].status # "cancelled"
                              => MovementsOf(o, p, "cancel", qty)' = {}
  BY DEF OrderBooks
<1>2. Done(s, p, qty) = Wanting(s, p, qty) /\ Done(s, p, qty) \in Nat
  BY <1>1, AllDone
<1>3. /\ Booked(o, p, qty) = Ordered(o, p, qty)
      /\ "status" \notin Kinds /\ orders[o].status # "cancelled"
           => MovementsOf(o, p, "cancel", qty) = {}
  BY <1>1 DEF OrderBooks
<1>4. CASE tx[s].kind = "order"
  <2>1. /\ orders[o] = NoOrder /\ orders'[o].status = "pending"
        /\ orders'[o].lines = tx[s].lines
    BY <1>1, <1>4 DEF SessionBooks, OrderHeld, CommittedOrder
  <2>2. Booked(o, p, qty) = 0
    BY <1>3, <2>1, CountEmpty DEF Ordered, NoOrder
  <2>3. Booked(o, p, qty)' = Booked(o, p, qty) + Done(s, p, qty)
    <3>1. Count(ledger'[p], Caused(o, "order", -qty))
            = Count(ledger[p], Caused(o, "order", -qty))
                + Count(tx[s].entries[p], Caused(o, "order", -qty))
      BY CommittedMovements
    <3> QED BY <1>4, <3>1 DEF Booked, Done, Signed
  <2>4. Ordered(o, p, qty)' = Wanting(s, p, qty)
    BY <2>1 DEF Ordered, Wanting
  <2>5. "status" \notin Kinds => MovementsOf(o, p, "cancel", qty)' = {}
    <3>1. "status" \notin Kinds => MovementsOf(o, p, "cancel", qty) = {}
      BY <1>3, <2>1 DEF NoOrder
    <3>2. Places(ledger[p], Caused(o, "cancel", qty)) = {}
            => Places(ledger'[p], Caused(o, "cancel", qty)) = {}
      BY <1>4, CommittedMovements
    <3> QED BY <3>1, <3>2 DEF MovementsOf
  <2> QED BY <1>2, <2>1, <2>2, <2>3, <2>4, <2>5
<1>5. CASE tx[s].kind = "cancel"
  <2>1. /\ orders'[o].status = "cancelled" /\ orders'[o].lines = orders[o].lines
        /\ orders[o].lines = tx[s].lines
    BY <1>1, <1>5 DEF SessionBooks, OrderHeld, CommittedOrder, TypeInv, TypeOK
  <2>2. Booked(o, p, qty)' = Booked(o, p, qty)
    BY <1>5, CommittedMovements DEF Booked
  <2>3. Returned(o, p, qty)' = Returned(o, p, qty) + Done(s, p, qty)
    <3>1. Count(ledger'[p], Caused(o, "cancel", qty))
            = Count(ledger[p], Caused(o, "cancel", qty))
                + Count(tx[s].entries[p], Caused(o, "cancel", qty))
      BY CommittedMovements
    <3> QED BY <1>1, <1>5, <3>1 DEF Returned, Done, Signed
  <2>4. Returned(o, p, qty) \in Nat
    BY CommittedMovements DEF Returned
  <2>5. /\ Ordered(o, p, qty)' = Ordered(o, p, qty)
        /\ Ordered(o, p, qty) = Wanting(s, p, qty)
    BY <2>1 DEF Ordered, Wanting
  <2> QED BY <1>2, <1>3, <2>1, <2>2, <2>3, <2>4, <2>5
<1> QED BY <1>1, <1>4, <1>5 DEF SessionShape

LEMMA CommitBooks ==
  ASSUME TypeInv, Books, NEW s \in Sessions, Commit(s)
  PROVE  Books'
<1>1. /\ pc[s] = "commit" /\ SessionBooks(s) /\ SessionShape(s)
      /\ tx[s].order \in Orders \cup {None}
  BY SessionTypes DEF Commit, Books, TypeInv, Shape
<1>2. \A o \in Orders : o # tx[s].order => orders'[o] = orders[o]
  BY DEF Commit, TypeInv, TypeOK
<1>3. ASSUME NEW o \in Orders PROVE OrderBooks(o)'
  <2>1. CASE o = tx[s].order
    BY <2>1, CommittedBooks
  <2>2. CASE o # tx[s].order
    <3> SUFFICES ASSUME NEW p \in Products, NEW qty \in Int
                 PROVE  /\ Booked(o, p, qty)' = Ordered(o, p, qty)'
                        /\ "status" \notin Kinds =>
                             /\ orders'[o].status = "cancelled"
                                  => Returned(o, p, qty)' >= Ordered(o, p, qty)'
                             /\ orders'[o].status # "cancelled"
                                  => MovementsOf(o, p, "cancel", qty)' = {}
      BY DEF OrderBooks
    <3>1. /\ Count(ledger'[p], Caused(o, "order", -qty))
               = Count(ledger[p], Caused(o, "order", -qty))
          /\ Count(ledger'[p], Caused(o, "cancel", qty))
               = Count(ledger[p], Caused(o, "cancel", qty))
          /\ Places(ledger[p], Caused(o, "cancel", qty)) = {}
               => Places(ledger'[p], Caused(o, "cancel", qty)) = {}
      <4>1. Count(ledger'[p], Caused(o, "order", -qty))
              = Count(ledger[p], Caused(o, "order", -qty))
        BY <2>2, CommittedMovements
      <4>2. Count(ledger'[p], Caused(o, "cancel", qty))
              = Count(ledger[p], Caused(o, "cancel", qty))
        BY <2>2, CommittedMovements
      <4>3. Places(ledger[p], Caused(o, "cancel", qty)) = {}
              => Places(ledger'[p], Caused(o, "cancel", qty)) = {}
        BY <2>2, CommittedMovements
      <4> QED BY <4>1, <4>2, <4>3
    <3>2. Ordered(o, p, qty)' = Ordered(o, p, qty) /\ orders'[o] = orders[o]
      BY <1>2, <2>2 DEF Ordered
    <3>3. OrderBooks(o)
      BY DEF Books
    <3> QED BY <3>1, <3>2, <3>3 DEF OrderBooks, Booked, Returned, MovementsOf
  <2> QED BY <2>1, <2>2
<1>4. Spared(s)
  <2>1. \A t \in Sessions \ {s} : tx'[t] = tx[t] /\ pc'[t] = pc[t]
    BY DEF Commit, TypeInv, TypeOK
  <2>2. ASSUME NEW o \in Orders, orders[o].lines # <<>>
        PROVE  orders'[o].lines = orders[o].lines
    <3>1. CASE o = tx[s].order
      <4>1. tx[s].kind = "cancel"
        BY <1>1, <2>2, <3>1, ConstantsAssumption
        DEF SessionShape, SessionBooks, OrderHeld, NoOrder
      <4>2. orders'[o] = [orders[o] EXCEPT !.status = "cancelled"]
        BY <3>1, <4>1, ConstantsAssumption DEF Commit, CommittedOrder, TypeInv, TypeOK
      <4> QED BY <4>2 DEF TypeInv, TypeOK
    <3> QED BY <1>2, <3>1
  <2>3. ASSUME NEW o \in Orders, NEW t \in Sessions \ {s}, locks[o] = t, orders[o] = NoOrder
        PROVE  locks'[o] = t /\ orders'[o] = NoOrder
    <3>1. o # tx[s].order
      BY <1>1, <2>3, ConstantsAssumption
      DEF SessionShape, SessionBooks, OrderHeld, NoOrder
    <3> QED BY <1>2, <2>3, <3>1 DEF Commit, Unlocked, TypeInv, TypeOK
  <2> QED BY <2>1, <2>2, <2>3 DEF Spared
<1>5. SessionBooks(s)'
  <2>1. /\ pc'[s] # "commit"
        /\ tx'[s] = IdleTx \/ tx'[s] = [IdleTx EXCEPT !.kind = "order", !.user = tx[s].user]
    BY DEF Commit, TypeInv, TypeOK
  <2>2. /\ tx'[s].order = None /\ tx'[s].kind # "cancel"
        /\ \A p \in Products : tx'[s].entries[p] = <<>>
    <3>1. CASE tx'[s] = IdleTx
      BY <3>1 DEF IdleTx
    <3>2. CASE tx'[s] = [IdleTx EXCEPT !.kind = "order", !.user = tx[s].user]
      BY <3>2 DEF IdleTx
    <3> QED BY <2>1, <3>1, <3>2
  <2> QED BY <2>1, <2>2, FreshBooks
<1> QED BY <1>3, <1>4, <1>5, BooksOfOne

LEMMA FormBooks ==
  ASSUME TypeInv, Books, NEW s \in Sessions, NEW threshold,
         \/ SettingsSave(s, threshold)
         \/ \E quantity : UpdateSave(s, threshold, quantity)
  PROVE  Books'
<1>1. /\ UNCHANGED <<orders, ledger, locks>> /\ tx[s].kind \in {"settings", "update"}
      /\ \A t \in Sessions \ {s} : tx'[t] = tx[t] /\ pc'[t] = pc[t]
      /\ pc'[s] \in {"idle", "read"}
  BY DEF SettingsSave, UpdateSave, SaveRow, TypeInv, TypeOK
<1>2. tx[s] \in Tx /\ SessionBooks(s) /\ tx[s].order = None
  BY <1>1, SessionTypes DEF Books, TypeInv, Shape, SessionShape
<1>3. CASE tx'[s] = IdleTx
  <2>1. SessionBooks(s)'
    BY <1>1, <1>3, FreshBooks DEF IdleTx
  <2> QED BY <1>1, <2>1, QuietBooks
<1>4. ASSUME NEW todo, tx'[s] = [tx[s] EXCEPT !.row = BlankRow, !.todo = todo] PROVE Books'
  <2>1. /\ tx'[s].order = None /\ tx'[s].kind = tx[s].kind
        /\ tx'[s].entries = tx[s].entries
    BY <1>2, <1>4 DEF Tx
  <2>2. SessionBooks(s)'
    BY <1>1, <1>2, <2>1 DEF SessionBooks, EntriesSigned, Progress, OrderHeld
  <2> QED BY <1>1, <2>2, QuietBooks
<1>5. tx'[s] = IdleTx \/ \E todo : tx'[s] = [tx[s] EXCEPT !.row = BlankRow, !.todo = todo]
  <2>1. CASE SettingsSave(s, threshold)
    BY <2>1 DEF SettingsSave, TypeInv, TypeOK
  <2>2. ASSUME NEW quantity, UpdateSave(s, threshold, quantity)
        PROVE  tx'[s] = IdleTx
                 \/ \E todo : tx'[s] = [tx[s] EXCEPT !.row = BlankRow, !.todo = todo]
    <3>1. CASE tx' = [tx EXCEPT ![s] = IdleTx]
      BY <3>1 DEF TypeInv, TypeOK
    <3>2. ASSUME NEW todo,
                 tx' = [tx EXCEPT ![s].row = BlankRow, ![s].todo = todo]
          PROVE  tx'[s] = [tx[s] EXCEPT !.row = BlankRow, !.todo = todo]
      BY <3>2 DEF TypeInv, TypeOK
    <3> QED BY <2>2, <3>1, <3>2 DEF UpdateSave
  <2> QED BY <2>1, <2>2
<1> QED BY <1>3, <1>4, <1>5

LEMMA ClearCartBooks ==
  ASSUME TypeInv, Books, NEW s \in Sessions, ClearCart(s)
  PROVE  Books'
<1>1. /\ UNCHANGED <<orders, ledger, locks>> /\ pc'[s] = "idle" /\ tx'[s] = IdleTx
      /\ \A t \in Sessions \ {s} : tx'[t] = tx[t] /\ pc'[t] = pc[t]
  BY DEF ClearCart, TypeInv, TypeOK
<1>2. SessionBooks(s)'
  BY <1>1, FreshBooks DEF IdleTx
<1> QED BY <1>1, <1>2, QuietBooks

\* Every step keeps the books.
LEMMA BooksStep == TypeInv /\ Books /\ [Next]_vars => Books'
<1> SUFFICES ASSUME TypeInv, Books, [Next]_vars PROVE Books'
  OBVIOUS
<1>1. ASSUME NEW s \in Sessions, Serve(s) PROVE Books'
  BY <1>1, RollbackBooks, CheckLineBooks, InsertOrderBooks, CancelSaveBooks, AdjustReadBooks,
     AdjustSaveBooks, CommitBooks, ClearCartBooks, FormBooks
  DEF Serve, NothingToOrder, AdjustRefuse, DeadlockVictim
<1>2. CASE UNCHANGED <<tx, pc, locks, orders, ledger>>
  <2>1. ASSUME NEW s \in Sessions PROVE SessionBooks(s)'
    BY <1>2 DEF Books, SessionBooks, EntriesSigned, Progress, Done, ToDo, Wanting, OrderHeld
  <2> QED BY <1>2, <2>1, TablesStay DEF Books
<1>3. CASE ApiCrash
  <2>1. ASSUME NEW s \in Sessions PROVE SessionBooks(s)'
    BY <1>3, FreshBooks DEF ApiCrash, IdleTx
  <2> QED BY <1>3, <2>1, TablesStay DEF Books, ApiCrash
<1>4. Worker \/ Deliver \/ WorkerCrash \/ UNCHANGED vars
        => UNCHANGED <<tx, pc, locks, orders, ledger>>
  BY DEF Worker, ScanList, ScanVisit, Deliver, DeliverAlert, NotifyFails, ListAdminsFails,
         PassOver, WorkerCrash, vars
<1> QED BY <1>1, <1>2, <1>3, <1>4, RequestBooks DEF Next

LEMMA InitBooks == Init => Books
<1> SUFFICES ASSUME Init PROVE Books
  OBVIOUS
<1>1. ASSUME NEW s \in Sessions PROVE SessionBooks(s)
  BY <1>1 DEF Init, IdleTx, SessionBooks, EntriesSigned, Progress, OrderHeld
<1>2. ASSUME NEW o \in Orders PROVE OrderBooks(o)
  BY <1>2, CountEmpty
  DEF Init, NoOrder, OrderBooks, Booked, Ordered, MovementsOf
<1> QED BY <1>1, <1>2 DEF Books

\* Units of orders and movements are whole numbers.
LEMMA UnitsType ==
  ASSUME TypeInv, NEW o \in Orders, NEW p \in Products
  PROVE  Units(o, p) \subseteq Int
<1>1. orders[o].lines \in Seq(Line) /\ ledger[p] \in Seq(Movement)
  BY DEF TypeInv, TypeOK
<1>2. ASSUME NEW i \in DOMAIN orders[o].lines PROVE orders[o].lines[i].qty \in Int
  <2>1. orders[o].lines[i] \in Line
    BY <1>1
  <2> QED BY <2>1 DEF Line
<1>3. ASSUME NEW i \in DOMAIN ledger[p] PROVE ledger[p][i].delta \in Int
  <2>1. ledger[p][i] \in Movement
    BY <1>1
  <2> QED BY <2>1 DEF Movement
<1>4. Moved(p) \subseteq Int
  BY <1>3 DEF Moved
<1> QED BY <1>2, <1>4 DEF Units

\* The books hold in every state.
THEOREM BooksHold == Spec => []Books
  BY InitBooks, BooksStep, TypesHold, PTL DEF Spec

\* OrdersBooked, for any number of sessions, orders and lines: an order exists together with
\* the movements of all its lines, whatever was refused, deadlocked or crashed on the way.
THEOREM OrdersAreBooked == Spec => []OrdersBooked
<1>1. TypeInv /\ Books => OrdersBooked
  <2> SUFFICES ASSUME TypeInv, Books, NEW o \in Orders, NEW p \in Products,
                      NEW qty \in Units(o, p)
               PROVE  Cardinality(MovementsOf(o, p, "order", -qty))
                        = Cardinality(LinesOf(o, p, qty))
    BY DEF OrdersBooked
  <2>1. qty \in Int
    BY UnitsType
  <2>2. Booked(o, p, qty) = Ordered(o, p, qty)
    BY <2>1 DEF Books, OrderBooks
  <2> QED BY <2>2 DEF Booked, Ordered, Count, MovementsOf, LinesOf, TheLine
<1> QED BY <1>1, BooksHold, TypesHold, PTL

\* CancelReturnsStock, for any number of sessions, orders and lines: a cancelled order has
\* given each of its lines back, and no other order has.
THEOREM CancelledStockReturns == Spec => []CancelReturnsStock
<1>1. TypeInv /\ Books => CancelReturnsStock
  <2> SUFFICES ASSUME TypeInv, Books, "status" \notin Kinds, NEW o \in Orders,
                      NEW p \in Products, NEW qty \in Units(o, p)
               PROVE  IF orders[o].status = "cancelled"
                      THEN Cardinality(MovementsOf(o, p, "cancel", qty))
                             >= Cardinality(LinesOf(o, p, qty))
                      ELSE MovementsOf(o, p, "cancel", qty) = {}
    BY DEF CancelReturnsStock
  <2>1. qty \in Int
    BY UnitsType
  <2>2. /\ orders[o].status = "cancelled" => Returned(o, p, qty) >= Ordered(o, p, qty)
        /\ orders[o].status # "cancelled" => MovementsOf(o, p, "cancel", qty) = {}
    BY <2>1 DEF Books, OrderBooks
  <2> QED BY <2>2 DEF Returned, Ordered, Count, MovementsOf, LinesOf, TheLine
<1> QED BY <1>1, BooksHold, TypesHold, PTL

-----------------------------------------------------------------------------
(* Orders are given back once. *)

\* Another request had the order in hands when it was written, or it was set back to
\* pending.
Stale(o) == o \in overtaken \cup reopened

\* Nobody has cancelled the order, or somebody who has seen it pending is about to.
NotYet(o) ==
  \/ orders[o].status \in {"pending", "none"}
  \/ \E s \in Sessions : Cancels(s, o)

\* An order has been given back no more lines than it has, and none while it can be, or is
\* being, cancelled.
ReturnedOnce(o) ==
  \A p \in Products, qty \in Int :
    /\ Returned(o, p, qty) <= Ordered(o, p, qty)
    /\ NotYet(o) => MovementsOf(o, p, "cancel", qty) = {}

Once == \A o \in Orders : Stale(o) \/ ReturnedOnce(o)

\* The history only grows.
HistoryGrows == overtaken \subseteq overtaken' /\ reopened \subseteq reopened'

\* Steps that write neither table, and begin no cancellation but of a pending order.
LEMMA OnceKept ==
  ASSUME Once, HistoryGrows, UNCHANGED <<orders, ledger>>,
         \A t \in Sessions, o \in Orders :
           Cancels(t, o)' => Cancels(t, o) \/ orders[o].status = "pending"
  PROVE  Once'
<1> SUFFICES ASSUME NEW o \in Orders, ~Stale(o)' PROVE ReturnedOnce(o)'
  BY DEF Once
<1>1. ReturnedOnce(o)
  BY DEF Once, Stale, HistoryGrows
<1>2. NotYet(o)' => NotYet(o)
  BY DEF NotYet
<1> QED BY <1>1, <1>2 DEF ReturnedOnce, Returned, Ordered, MovementsOf

\* A commit begins no cancellation.
LEMMA CommitEnds ==
  ASSUME TypeInv, NEW s \in Sessions, Commit(s)
  PROVE  \A t \in Sessions, o \in Orders : Cancels(t, o)' => Cancels(t, o)
<1> SUFFICES ASSUME NEW t \in Sessions, NEW o \in Orders, Cancels(t, o)' PROVE Cancels(t, o)
  OBVIOUS
<1>1. CASE t # s
  BY <1>1 DEF Cancels, Commit, TypeInv, TypeOK
<1>2. tx'[s] = IdleTx \/ tx'[s] = [IdleTx EXCEPT !.kind = "order", !.user = tx[s].user]
  BY DEF Commit, TypeInv, TypeOK
<1>3. tx'[s].kind # "cancel"
  <2>1. CASE tx'[s] = IdleTx
    BY <2>1 DEF IdleTx
  <2>2. CASE tx'[s] = [IdleTx EXCEPT !.kind = "order", !.user = tx[s].user]
    BY <2>2 DEF IdleTx
  <2> QED BY <1>2, <2>1, <2>2
<1> QED BY <1>1, <1>3 DEF Cancels

\* The order of a cancellation gets its lines back once; no other order gets any.
LEMMA CommitOnce ==
  ASSUME TypeInv, Books, NEW s \in Sessions, Commit(s), NEW o \in Orders,
         ReturnedOnce(o), ~Stale(o)'
  PROVE  ReturnedOnce(o)'
<1>1. SessionBooks(s) /\ SessionShape(s)
  BY DEF Books, TypeInv, Shape
<1>0. ~ \E t \in Sessions : Cancels(t, o)' /\ Cancels(s, o)
  <2> SUFFICES ASSUME NEW t \in Sessions, Cancels(t, o)', Cancels(s, o) PROVE FALSE
    OBVIOUS
  <2>1. CASE t = s
    <3>1. tx'[s] = IdleTx
      BY DEF Cancels, Commit, TypeInv, TypeOK
    <3> QED BY <2>1, <3>1 DEF Cancels, IdleTx
  <2>2. CASE t # s
    <3>1. Cancels(t, o) /\ o \notin Products
      BY <2>2, ConstantsAssumption DEF Cancels, Commit, TypeInv, TypeOK
    <3>2. o \in InHands(s, Written(s))
      BY <2>2, <3>1 DEF InHands, Written
    <3> QED BY <3>2 DEF Commit, Stale
  <2> QED BY <2>1, <2>2
<1> SUFFICES ASSUME NEW p \in Products, NEW qty \in Int
             PROVE  /\ Returned(o, p, qty)' <= Ordered(o, p, qty)'
                    /\ NotYet(o)' => MovementsOf(o, p, "cancel", qty)' = {}
  BY DEF ReturnedOnce
<1>2. /\ Returned(o, p, qty) <= Ordered(o, p, qty)
      /\ NotYet(o) => MovementsOf(o, p, "cancel", qty) = {}
  BY DEF ReturnedOnce
<1>3. CASE o = tx[s].order /\ tx[s].kind = "cancel"
  <2>1. /\ NotYet(o) /\ orders[o].lines = tx[s].lines
        /\ orders'[o] = [orders[o] EXCEPT !.status = "cancelled"]
    BY <1>1, <1>3, ConstantsAssumption
    DEF NotYet, Cancels, SessionBooks, OrderHeld, Commit, CommittedOrder, TypeInv, TypeOK
  <2>2. orders'[o].status = "cancelled" /\ orders'[o].lines = tx[s].lines
    BY <2>1 DEF TypeInv, TypeOK
  <2>3. Returned(o, p, qty) = 0
    BY <1>2, <2>1, FS_EmptySet DEF Returned, MovementsOf, Count
  <2>4. Returned(o, p, qty)' = Returned(o, p, qty) + Done(s, p, qty)
    <3>1. Count(ledger'[p], Caused(o, "cancel", qty))
            = Count(ledger[p], Caused(o, "cancel", qty))
                + Count(tx[s].entries[p], Caused(o, "cancel", qty))
      BY CommittedMovements
    <3> QED BY <1>3, <3>1 DEF Returned, Done, Signed
  <2>5. Done(s, p, qty) = Wanting(s, p, qty) /\ Done(s, p, qty) \in Nat
    BY <1>3, ConstantsAssumption, AllDone DEF Commit
  <2>6. Ordered(o, p, qty)' = Wanting(s, p, qty)
    BY <2>2 DEF Ordered, Wanting
  <2>7. ~NotYet(o)'
    BY <1>0, <1>3, <2>2 DEF NotYet, Cancels
  <2> QED BY <2>3, <2>4, <2>5, <2>6, <2>7
<1>4. CASE o # tx[s].order \/ tx[s].kind # "cancel"
  <2>1. /\ Count(ledger'[p], Caused(o, "cancel", qty))
             = Count(ledger[p], Caused(o, "cancel", qty))
        /\ Places(ledger[p], Caused(o, "cancel", qty)) = {}
             => Places(ledger'[p], Caused(o, "cancel", qty)) = {}
    BY <1>4, CommittedMovements
  <2>2. CASE o # tx[s].order
    <3>1. orders'[o] = orders[o]
      BY <2>2 DEF Commit, TypeInv, TypeOK
    <3>2. \A t \in Sessions : Cancels(t, o)' => Cancels(t, o)
      BY CommitEnds
    <3>3. NotYet(o)' => NotYet(o)
      BY <3>1, <3>2 DEF NotYet
    <3> QED BY <1>2, <2>1, <3>1, <3>3 DEF Returned, MovementsOf, Ordered
  <2>3. CASE o = tx[s].order
    <3>1. tx[s].kind = "order" /\ orders[o] = NoOrder
      BY <1>1, <1>4, <2>3, ConstantsAssumption DEF SessionShape, SessionBooks, OrderHeld
    <3>2. MovementsOf(o, p, "cancel", qty) = {}
      BY <1>2, <3>1 DEF NotYet, NoOrder
    <3>3. MovementsOf(o, p, "cancel", qty)' = {}
      BY <2>1, <3>2 DEF MovementsOf
    <3>4. Returned(o, p, qty)' = 0
      BY <3>3, FS_EmptySet DEF Returned, MovementsOf, Count
    <3>5. Ordered(o, p, qty)' \in Nat
      <4>1. orders'[o].lines = tx[s].lines
        BY <2>3, <3>1, ConstantsAssumption DEF Commit, CommittedOrder, TypeInv, TypeOK
      <4>2. tx[s].lines \in Seq(Line)
        BY SessionTypes
      <4> QED BY <4>1, <4>2, CountType DEF Ordered
    <3> QED BY <3>3, <3>4, <3>5
  <2> QED BY <2>2, <2>3
<1> QED BY <1>3, <1>4


\* A request, or a statement of one, keeps it.
LEMMA OnceSessionStep ==
  ASSUME TypeInv, Books, Once, NEW s \in Sessions, Request(s) \/ Serve(s)
  PROVE  Once'
<1>0. SessionShape(s) /\ tx[s] \in Tx
  BY SessionTypes DEF TypeInv, Shape
<1>1. ASSUME UNCHANGED <<orders, ledger>>, HistoryGrows,
             \A t \in Sessions \ {s} : tx'[t] = tx[t],
             \A o \in Orders : Cancels(s, o)' => Cancels(s, o) \/ orders[o].status = "pending"
      PROVE  Once'
  <2>1. \A t \in Sessions, o \in Orders :
          Cancels(t, o)' => Cancels(t, o) \/ orders[o].status = "pending"
    BY <1>1 DEF Cancels
  <2> QED BY <1>1, <2>1, OnceKept
<1>2. ASSUME UNCHANGED <<orders, ledger>>, HistoryGrows,
             \A t \in Sessions \ {s} : tx'[t] = tx[t], tx'[s].kind # "cancel"
      PROVE  Once'
  BY <1>1, <1>2 DEF Cancels
<1>3. ASSUME UNCHANGED <<orders, ledger>>, HistoryGrows,
             \A t \in Sessions \ {s} : tx'[t] = tx[t], tx'[s].kind = tx[s].kind,
             tx[s].kind = "cancel" => tx'[s].order = tx[s].order
      PROVE  Once'
  BY <1>1, <1>3 DEF Cancels
<1>4. ASSUME NEW o \in Orders, CancelStart(s, o) PROVE Once'
  <2>1. /\ UNCHANGED <<orders, ledger>> /\ tx'[s].order = o /\ orders[o].status = "pending"
        /\ \A t \in Sessions \ {s} : tx'[t] = tx[t]
        /\ HistoryGrows
    BY <1>4 DEF CancelStart, Cancellable, IdleTx, HistoryGrows, TypeInv, TypeOK
  <2> QED BY <1>1, <2>1 DEF Cancels
<1>5. ASSUME NEW o \in Orders, NEW status \in Statuses, UpdateStatus(s, o, status) PROVE Once'
  <2>1. /\ UNCHANGED <<tx, ledger, overtaken>>
        /\ orders' = [orders EXCEPT ![o].status = status]
        /\ reopened \subseteq reopened' /\ status # "none"
        /\ status = "pending" /\ orders[o].status # "pending" => o \in reopened'
    BY <1>5, ConstantsAssumption DEF UpdateStatus, Cancellable, OrderStatus
  <2> SUFFICES ASSUME NEW other \in Orders, ~Stale(other)' PROVE ReturnedOnce(other)'
    BY DEF Once
  <2>2. ReturnedOnce(other)
    BY <2>1 DEF Once, Stale
  <2>3. orders'[other].lines = orders[other].lines
    BY <2>1 DEF TypeInv, TypeOK
  <2>4. NotYet(other)' => NotYet(other)
    <3>1. orders'[other].status = IF other = o THEN status ELSE orders[other].status
      BY <2>1 DEF TypeInv, TypeOK
    <3>2. \A t \in Sessions : Cancels(t, other)' => Cancels(t, other)
      BY <2>1 DEF Cancels
    <3> QED BY <2>1, <3>1, <3>2 DEF NotYet, Stale
  <2> QED BY <2>1, <2>2, <2>3, <2>4 DEF ReturnedOnce, Returned, Ordered, MovementsOf
<1>6. ASSUME Request(s) PROVE Once'
  <2>1. ASSUME NEW u \in Users, OrderStart(s, u) PROVE Once'
    BY <1>2, <2>1 DEF OrderStart, IdleTx, HistoryGrows, TypeInv, TypeOK
  <2>2. ASSUME NEW p \in Products, NEW qty \in Quantities, AdjustStart(s, p, qty) PROVE Once'
    BY <1>2, <2>2 DEF AdjustStart, IdleTx, HistoryGrows, TypeInv, TypeOK
  <2>3. ASSUME NEW kind \in {"settings", "update"}, NEW p \in Products, RowRead(s, kind, p)
        PROVE  Once'
    BY <1>2, <2>3 DEF RowRead, IdleTx, HistoryGrows, TypeInv, TypeOK
  <2>4. ASSUME NEW chosen \in SUBSET Products, NEW threshold \in Thresholds,
               BulkSetThreshold(s, chosen, threshold)
        PROVE  Once'
    BY <1>3, <2>4 DEF BulkSetThreshold, HistoryGrows
  <2> QED BY <1>4, <1>5, <1>6, <2>1, <2>2, <2>3, <2>4 DEF Request
<1>7. ASSUME Rollback(s) PROVE Once'
  BY <1>2, <1>7 DEF Rollback, IdleTx, HistoryGrows, TypeInv, TypeOK
<1>8. ASSUME CheckLine(s) PROVE Once'
  <2>1. tx'[s].kind = tx[s].kind /\ tx'[s].order = tx[s].order
    BY <1>0, <1>8 DEF CheckLine, Tx, TypeInv, TypeOK
  <2> QED BY <1>3, <1>8, <2>1 DEF CheckLine, HistoryGrows, TypeInv, TypeOK
<1>9. ASSUME NEW o \in Orders, InsertOrder(s, o) PROVE Once'
  <2>1. tx'[s].kind = "order"
    BY <1>0, <1>9 DEF InsertOrder, SessionShape, Tx, TypeInv, TypeOK
  <2> QED BY <1>2, <1>9, <2>1 DEF InsertOrder, HistoryGrows, TypeInv, TypeOK
<1>10. ASSUME CancelSave(s) PROVE Once'
  BY <1>3, <1>10 DEF CancelSave, HistoryGrows
<1>11. ASSUME AdjustRead(s) PROVE Once'
  <2>1. tx'[s] = [tx[s] EXCEPT !.row = View(s, Target(s))]
    BY <1>11 DEF AdjustRead, TypeInv, TypeOK
  <2>2. tx'[s].kind = tx[s].kind /\ tx'[s].order = tx[s].order
    BY <1>0, <2>1 DEF Tx
  <2> QED BY <1>3, <1>11, <2>2 DEF AdjustRead, HistoryGrows, TypeInv, TypeOK
<1>12. ASSUME AdjustSave(s) PROVE Once'
  <2>1. /\ UNCHANGED <<orders, ledger>> /\ HistoryGrows /\ tx'[s] = AdjustedTx(s)
        /\ pc[s] = "save" /\ \A t \in Sessions \ {s} : tx'[t] = tx[t]
    BY <1>12 DEF AdjustSave, HistoryGrows, TypeInv, TypeOK
  <2> QED BY <1>3, <2>1, AdjustedTxType
<1>13. ASSUME Commit(s) PROVE Once'
  <2>1. HistoryGrows
    BY <1>13 DEF Commit, HistoryGrows
  <2> QED BY <1>13, <2>1, CommitOnce DEF Once, Stale, HistoryGrows
<1>14. ASSUME ClearCart(s) PROVE Once'
  BY <1>2, <1>14 DEF ClearCart, IdleTx, HistoryGrows, TypeInv, TypeOK
<1>15. ASSUME NEW threshold, SettingsSave(s, threshold) PROVE Once'
  BY <1>2, <1>15 DEF SettingsSave, SaveRow, IdleTx, HistoryGrows, TypeInv, TypeOK
<1>16. ASSUME NEW threshold, NEW quantity, UpdateSave(s, threshold, quantity) PROVE Once'
  <2>1. /\ UNCHANGED <<orders, ledger>> /\ HistoryGrows /\ tx[s].kind = "update"
        /\ \A t \in Sessions \ {s} : tx'[t] = tx[t]
    BY <1>16 DEF UpdateSave, SaveRow, HistoryGrows, TypeInv, TypeOK
  <2>2. CASE tx' = [tx EXCEPT ![s] = IdleTx]
    BY <1>2, <2>1, <2>2 DEF IdleTx, TypeInv, TypeOK
  <2>3. ASSUME NEW todo, tx' = [tx EXCEPT ![s].row = BlankRow, ![s].todo = todo] PROVE Once'
    <3>1. tx'[s].kind = "update"
      BY <1>0, <2>1, <2>3 DEF Tx, TypeInv, TypeOK
    <3> QED BY <1>2, <2>1, <3>1
  <2> QED BY <1>16, <2>2, <2>3 DEF UpdateSave
<1> QED
  BY <1>6, <1>7, <1>8, <1>9, <1>10, <1>11, <1>12, <1>13, <1>14, <1>15, <1>16
  DEF Serve, NothingToOrder, AdjustRefuse, DeadlockVictim

LEMMA OnceStep == TypeInv /\ Books /\ Once /\ [Next]_vars => Once'
<1> SUFFICES ASSUME TypeInv, Books, Once, [Next]_vars PROVE Once'
  OBVIOUS
<1>1. CASE UNCHANGED <<tx, orders, ledger, overtaken, reopened>>
  BY <1>1, OnceKept DEF HistoryGrows, Cancels
<1>2. CASE ApiCrash
  <2>1. \A t \in Sessions, o \in Orders : ~Cancels(t, o)'
    BY <1>2 DEF ApiCrash, Cancels, IdleTx
  <2> QED BY <1>2, <2>1, OnceKept DEF ApiCrash, HistoryGrows
<1>3. Worker \/ Deliver \/ WorkerCrash \/ UNCHANGED vars
        => UNCHANGED <<tx, orders, ledger, overtaken, reopened>>
  BY DEF Worker, ScanList, ScanVisit, Deliver, DeliverAlert, NotifyFails, ListAdminsFails,
         PassOver, WorkerCrash, vars
<1> QED BY <1>1, <1>2, <1>3, OnceSessionStep DEF Next

LEMMA InitOnce == Init => Once
<1> SUFFICES ASSUME Init, NEW o \in Orders PROVE ReturnedOnce(o)
  BY DEF Once
<1> QED
  BY CountEmpty DEF Init, NoOrder, ReturnedOnce, Returned, Ordered, MovementsOf

\* CancelledOnce, for any orders and any number of requests, concurrent or not, with any
\* crashes and deadlocks: an order gets its lines back once, unless another request had seen
\* it pending when a cancellation of it committed, or it was set back to pending.
THEOREM CancelledOnlyOnce == Spec => []CancelledOnce
<1>1. TypeInv /\ Once => CancelledOnce
  <2> SUFFICES ASSUME TypeInv, Once, NEW o \in Orders, o \notin overtaken \cup reopened,
                      NEW p \in Products, NEW qty \in Units(o, p)
               PROVE  Cardinality(MovementsOf(o, p, "cancel", qty))
                        <= Cardinality(LinesOf(o, p, qty))
    BY DEF CancelledOnce, PutBackOnce
  <2>1. qty \in Int
    BY UnitsType
  <2>2. Returned(o, p, qty) <= Ordered(o, p, qty)
    BY <2>1 DEF Once, Stale, ReturnedOnce
  <2> QED BY <2>2 DEF Returned, Ordered, Count, MovementsOf, LinesOf, TheLine
<1>2. Spec => []Once
  BY OnceStep, InitOnce, TypesHold, BooksHold, PTL DEF Spec
<1> QED BY <1>1, <1>2, TypesHold, PTL

-----------------------------------------------------------------------------
(* Adding up the ledger.  That the recursive function of LedgerStock exists, and *)
(* what it gives for a longer ledger, is proved from the least number of a set.  *)

LEMMA LeastOf ==
  ASSUME NEW T \in SUBSET Nat, T # {}
  PROVE  \E least \in T : \A k \in T : least <= k
<1> DEFINE R == {pair \in Nat \X Nat : pair[1] < pair[2]}
<1>1. IsWellFoundedOn(R, Nat)
  BY NatLessThanWellFounded DEF OpToRel
<1>2. PICK x \in T : \A y \in T : <<y, x>> \notin R
  BY <1>1, WFMin
<1>3. ASSUME NEW k \in T PROVE x <= k
  <2>1. x \in Nat /\ k \in Nat /\ <<k, x>> \notin R
    BY <1>2
  <2> QED BY <2>1
<1> QED BY <1>3

\* f[n] is what p has in stock after the first n movements of seq, for n up to k.
Running(f, k, p, seq) ==
  \A n \in 0 .. k : f[n] = IF n = 0 THEN InitStock[p] ELSE f[n - 1] + seq[n].delta

LEMMA RunningExists ==
  ASSUME NEW p \in Products, NEW seq \in Seq(Movement), NEW len \in 0 .. Len(seq)
  PROVE  \E f \in [0 .. len -> Int] : Running(f, len, p, seq)
<1> DEFINE Good(k) == \E f \in [0 .. k -> Int] : Running(f, k, p, seq)
           bad == {k \in 0 .. len : ~Good(k)}
<1>1. SUFFICES ASSUME bad # {} PROVE FALSE
  <2>1. len \in 0 .. len
    OBVIOUS
  <2> QED BY <1>1, <2>1
<1>2. bad \in SUBSET Nat
  OBVIOUS
<1>3. PICK k \in bad : \A other \in bad : k <= other
  <2> HIDE DEF bad
  <2> QED BY <1>1, <1>2, LeastOf
<1>4. k \in 0 .. len /\ ~Good(k) /\ Len(seq) \in Nat
  OBVIOUS
<1>5. InitStock[p] \in Int
  BY ConstantsAssumption
<1>6. CASE k = 0
  <2> DEFINE f == [n \in 0 .. 0 |-> InitStock[p]]
  <2>1. f \in [0 .. 0 -> Int] /\ Running(f, 0, p, seq)
    BY <1>5 DEF Running
  <2> QED BY <1>4, <1>6, <2>1
<1>7. CASE k # 0
  <2>1. k - 1 \in 0 .. len /\ Good(k - 1)
    <3>1. k - 1 \in 0 .. len
      BY <1>4, <1>7
    <3>2. k - 1 \notin bad
      BY <1>3, <1>4
    <3> QED BY <3>1, <3>2
  <2>2. PICK f \in [0 .. (k - 1) -> Int] : Running(f, k - 1, p, seq)
    BY <2>1
  <2> DEFINE g == [n \in 0 .. k |-> IF n = k THEN f[k - 1] + seq[k].delta ELSE f[n]]
  <2>3. seq[k].delta \in Int
    <3>1. k \in 1 .. Len(seq)
      BY <1>4, <1>7
    <3>2. seq[k] \in Movement
      BY <3>1
    <3> QED BY <3>2 DEF Movement
  <2>4. f[k - 1] + seq[k].delta \in Int
    <3>1. k - 1 \in 0 .. (k - 1)
      BY <1>4, <1>7
    <3> QED BY <2>3, <3>1
  <2>5. g \in [0 .. k -> Int]
    <3>1. ASSUME NEW n \in 0 .. k, n # k PROVE n \in 0 .. (k - 1)
      BY <1>4, <3>1
    <3> QED BY <2>4, <3>1
  <2>6. ASSUME NEW n \in 0 .. k
        PROVE  g[n] = IF n = 0 THEN InitStock[p] ELSE g[n - 1] + seq[n].delta
    <3>1. CASE n = k
      <4>1. k - 1 \in 0 .. k /\ k - 1 # k
        BY <1>4, <1>7
      <4>2. g[k - 1] = f[k - 1]
        BY <4>1
      <4> QED BY <1>7, <3>1, <4>2
    <3>2. CASE n # k /\ n = 0
      <4>1. 0 \in 0 .. (k - 1)
        BY <1>4, <1>7
      <4> QED BY <2>2, <3>2, <4>1 DEF Running
    <3>3. CASE n # k /\ n # 0
      <4>1. n \in 0 .. (k - 1) /\ n - 1 \in 0 .. k /\ n - 1 # k
        BY <1>4, <3>3
      <4>2. g[n] = f[n] /\ g[n - 1] = f[n - 1]
        BY <3>3, <4>1
      <4>3. f[n] = f[n - 1] + seq[n].delta
        BY <2>2, <3>3, <4>1 DEF Running
      <4> QED BY <3>3, <4>2, <4>3
    <3> QED BY <3>1, <3>2, <3>3
  <2> HIDE DEF g
  <2> QED BY <1>4, <2>5, <2>6 DEF Running
<1> QED BY <1>6, <1>7

\* Two ways to add up the same movements agree.
LEMMA RunningUnique ==
  ASSUME NEW p \in Products, NEW seq, NEW len \in Nat,
         NEW f, NEW g, Running(f, len, p, seq), Running(g, len, p, seq)
  PROVE  \A n \in 0 .. len : f[n] = g[n]
<1> DEFINE bad == {n \in 0 .. len : f[n] # g[n]}
<1>1. SUFFICES ASSUME bad # {} PROVE FALSE
  OBVIOUS
<1>2. bad \in SUBSET Nat
  OBVIOUS
<1>3. PICK k \in bad : \A other \in bad : k <= other
  <2> HIDE DEF bad
  <2> QED BY <1>1, <1>2, LeastOf
<1>4. k \in 0 .. len /\ f[k] # g[k]
  OBVIOUS
<1>5. k # 0
  BY <1>4 DEF Running
<1>6. k - 1 \in 0 .. len /\ k \in 1 .. len
  BY <1>4, <1>5
<1>7. f[k - 1] = g[k - 1]
  <2>1. k - 1 \notin bad
    BY <1>3, <1>4
  <2> QED BY <1>6, <2>1
<1>8. f[k] = f[k - 1] + seq[k].delta /\ g[k] = g[k - 1] + seq[k].delta
  BY <1>4, <1>5 DEF Running
<1> QED BY <1>4, <1>6, <1>7, <1>8

\* The stock the movements of a sequence account for.
StockAfter(p, seq) ==
  LET total[n \in 0 .. Len(seq)] ==
        IF n = 0 THEN InitStock[p] ELSE total[n - 1] + seq[n].delta
  IN total[Len(seq)]

LEMMA StockAfterRunning ==
  ASSUME NEW p \in Products, NEW seq \in Seq(Movement)
  PROVE  \E f : Running(f, Len(seq), p, seq) /\ StockAfter(p, seq) = f[Len(seq)]
                /\ f[Len(seq)] \in Int
<1> DEFINE Total(f) == f = [n \in 0 .. Len(seq) |->
                              IF n = 0 THEN InitStock[p] ELSE f[n - 1] + seq[n].delta]
           total == CHOOSE f : Total(f)
<1>1. Len(seq) \in Nat /\ Len(seq) \in 0 .. Len(seq)
  OBVIOUS
<1>2. PICK f \in [0 .. Len(seq) -> Int] : Running(f, Len(seq), p, seq)
  BY <1>1, RunningExists
<1>3. Total(f)
  BY <1>2 DEF Running
<1>4. Total(total)
  <2> HIDE DEF Total
  <2> QED BY <1>3
<1>5. Running(total, Len(seq), p, seq)
  <2> HIDE DEF total
  <2> QED BY <1>4 DEF Running
<1>6. \A n \in 0 .. Len(seq) : f[n] = total[n]
  <2> HIDE DEF total
  <2> QED BY <1>1, <1>2, <1>5, RunningUnique
<1>7. StockAfter(p, seq) = total[Len(seq)]
  BY DEF StockAfter
<1>8. total[Len(seq)] \in Int
  <2> HIDE DEF total
  <2> QED BY <1>1, <1>2, <1>6
<1> HIDE DEF total
<1> QED BY <1>5, <1>7, <1>8

LEMMA StockAfterNone ==
  ASSUME NEW p \in Products
  PROVE  StockAfter(p, <<>>) = InitStock[p]
<1>0. <<>> \in Seq(Movement)
  OBVIOUS
<1>1. PICK f : Running(f, Len(<<>>), p, <<>>) /\ StockAfter(p, <<>>) = f[Len(<<>>)]
  BY <1>0, StockAfterRunning
<1>2. Len(<<>>) = 0 /\ 0 \in 0 .. 0
  OBVIOUS
<1> QED BY <1>1, <1>2 DEF Running

LEMMA StockAfterAppend ==
  ASSUME NEW p \in Products, NEW seq \in Seq(Movement), NEW m \in Movement
  PROVE  /\ StockAfter(p, Append(seq, m)) = StockAfter(p, seq) + m.delta
         /\ StockAfter(p, seq) \in Int
<1>1. PICK f : Running(f, Len(seq), p, seq) /\ StockAfter(p, seq) = f[Len(seq)]
               /\ f[Len(seq)] \in Int
  BY StockAfterRunning
<1>2. /\ Append(seq, m) \in Seq(Movement) /\ Len(Append(seq, m)) = Len(seq) + 1
      /\ Len(seq) \in Nat /\ Append(seq, m)[Len(seq) + 1] = m
      /\ \A n \in 1 .. Len(seq) : Append(seq, m)[n] = seq[n]
  OBVIOUS
<1>3. PICK g : /\ Running(g, Len(seq) + 1, p, Append(seq, m))
               /\ StockAfter(p, Append(seq, m)) = g[Len(seq) + 1]
  BY <1>2, StockAfterRunning
<1>4. Running(g, Len(seq), p, seq)
  <2>1. ASSUME NEW n \in 0 .. Len(seq)
        PROVE  g[n] = IF n = 0 THEN InitStock[p] ELSE g[n - 1] + seq[n].delta
    <3>1. n \in 0 .. (Len(seq) + 1) /\ (n # 0 => Append(seq, m)[n] = seq[n])
      BY <1>2
    <3> QED BY <1>3, <3>1 DEF Running
  <2> QED BY <2>1 DEF Running
<1>5. g[Len(seq)] = f[Len(seq)]
  <2>1. \A n \in 0 .. Len(seq) : f[n] = g[n]
    BY <1>1, <1>2, <1>4, RunningUnique
  <2>2. Len(seq) \in 0 .. Len(seq)
    BY <1>2
  <2> QED BY <2>1, <2>2
<1>6. g[Len(seq) + 1] = g[Len(seq)] + m.delta
  <2>1. /\ Len(seq) + 1 \in 0 .. (Len(seq) + 1) /\ Len(seq) + 1 # 0
        /\ (Len(seq) + 1) - 1 = Len(seq)
    BY <1>2
  <2> QED BY <1>2, <1>3, <2>1 DEF Running
<1> QED BY <1>1, <1>3, <1>5, <1>6

-----------------------------------------------------------------------------
(* The ledger accounts for the stock. *)

\* The row a session sees has the stock its ledger and the session's movements account for,
\* and a row it has read and not saved yet has the stock it sees.
Even(s, p) ==
  /\ View(s, p).stock = StockAfter(p, ledger[p] \o tx[s].entries[p])
  /\ pc[s] \in {"save", "rowsave"} /\ Target(s) = p => tx[s].row.stock = View(s, p).stock

Balanced(p) ==
  /\ products[p].stock = StockAfter(p, ledger[p])
  /\ \A s \in Sessions : Even(s, p)

\* A form that has read a row has written no movement.
FormsBlank ==
  \A s \in Sessions : pc[s] = "rowsave" => \A p \in Products : tx[s].entries[p] = <<>>

Sums == FormsBlank /\ \A p \in Products : p \in overtaken \/ Balanced(p)

\* A movement added to the transaction's is one added to them all.
LEMMA ConcatAppend ==
  ASSUME NEW S, NEW a \in Seq(S), NEW b \in Seq(S), NEW e \in S
  PROVE  a \o Append(b, e) = Append(a \o b, e)
<1> DEFINE left == a \o Append(b, e)
           right == Append(a \o b, e)
<1>1. /\ left \in Seq(S) /\ right \in Seq(S)
      /\ Len(left) = Len(a) + Len(b) + 1 /\ Len(right) = Len(a) + Len(b) + 1
      /\ Len(a) \in Nat /\ Len(b) \in Nat
  OBVIOUS
<1>2. ASSUME NEW i \in 1 .. Len(a) + Len(b) + 1 PROVE left[i] = right[i]
  <2>1. CASE i \in 1 .. Len(a)
    BY <1>1, <2>1
  <2>2. CASE i \in Len(a) + 1 .. Len(a) + Len(b)
    BY <1>1, <2>2
  <2>3. CASE i = Len(a) + Len(b) + 1
    BY <1>1, <2>3
  <2> QED BY <1>1, <2>1, <2>2, <2>3
<1>3. left = right
  <2> HIDE DEF left, right
  <2> QED BY <1>1, <1>2
<1> QED BY <1>3

\* The rest of the sessions.
Others(s) == \A t \in Sessions \ {s} : tx'[t] = tx[t] /\ pc'[t] = pc[t]

\* What another session has read stays even, when the row and its ledger stay or it has read
\* nothing of them.
LEMMA BalanceOfOne ==
  ASSUME TypeInv', NEW s \in Sessions, NEW p \in Products, Balanced(p), Others(s), Even(s, p)',
         products'[p].stock = StockAfter(p, ledger'[p]),
         \/ ledger'[p] = ledger[p] /\ products'[p].stock = products[p].stock
         \/ \A t \in Sessions \ {s} : ~HoldsRow(t, p)
  PROVE  Balanced(p)'
<1>1. ASSUME NEW t \in Sessions \ {s} PROVE Even(t, p)'
  <2>1. tx'[t] = tx[t] /\ pc'[t] = pc[t] /\ Even(t, p)
    BY DEF Others, Balanced
  <2>2. CASE ledger'[p] = ledger[p] /\ products'[p].stock = products[p].stock
    <3>1. View(t, p)'.stock = View(t, p).stock
      BY <2>1, <2>2 DEF View, Wrote
    <3> QED BY <2>1, <2>2, <3>1 DEF Even, Target
  <2>3. CASE ~HoldsRow(t, p)
    <3>1. /\ tx'[t].entries[p] = <<>> /\ View(t, p)' = products'[p]
          /\ ~(pc'[t] \in {"save", "rowsave"} /\ Target(t)' = p)
      BY <2>1, <2>3 DEF HoldsRow, View, Wrote, Target
    <3>2. ledger'[p] \o <<>> = ledger'[p]
      <4>1. ledger'[p] \in Seq(Movement)
        BY DEF TypeInv, TypeOK
      <4> QED BY <4>1
    <3> QED BY <3>1, <3>2 DEF Even
  <2> QED BY <2>2, <2>3
<1> QED BY <1>1 DEF Balanced

\* A step that leaves the row's stock, its ledger and what s has written of it.
LEMMA QuietSums ==
  ASSUME TypeInv', NEW s \in Sessions, NEW p \in Products, Balanced(p), Others(s),
         ledger'[p] = ledger[p], products'[p].stock = products[p].stock,
         tx'[s].entries[p] = tx[s].entries[p], tx'[s].work[p] = tx[s].work[p],
         ~(pc'[s] \in {"save", "rowsave"} /\ Target(s)' = p)
  PROVE  Balanced(p)'
<1>1. View(s, p)'.stock = View(s, p).stock
  BY DEF View, Wrote
<1>2. Even(s, p)'
  BY <1>1 DEF Balanced, Even
<1>3. products'[p].stock = StockAfter(p, ledger'[p])
  BY DEF Balanced
<1> QED BY <1>2, <1>3, BalanceOfOne

\* A session that has written nothing and holds no row.
LEMMA IdleSums ==
  ASSUME TypeInv', NEW s \in Sessions, NEW p \in Products, Balanced(p), Others(s),
         tx'[s].entries[p] = <<>>, ~(pc'[s] \in {"save", "rowsave"} /\ Target(s)' = p),
         products'[p].stock = StockAfter(p, ledger'[p]),
         \/ ledger'[p] = ledger[p] /\ products'[p].stock = products[p].stock
         \/ \A t \in Sessions \ {s} : ~HoldsRow(t, p)
  PROVE  Balanced(p)'
<1>1. ledger'[p] \o <<>> = ledger'[p]
  <2>1. ledger'[p] \in Seq(Movement)
    BY DEF TypeInv, TypeOK
  <2> QED BY <2>1
<1>2. Even(s, p)'
  BY <1>1 DEF Even, View, Wrote
<1> QED BY <1>2, BalanceOfOne

\* No session moves.
LEMMA StillSums ==
  ASSUME NEW p \in Products, Balanced(p), UNCHANGED <<tx, pc>>,
         ledger'[p] = ledger[p], products'[p].stock = products[p].stock
  PROVE  Balanced(p)'
<1>1. ASSUME NEW s \in Sessions PROVE Even(s, p)'
  <2>1. View(s, p)'.stock = View(s, p).stock
    BY DEF View, Wrote
  <2> QED BY <2>1 DEF Balanced, Even, Target
<1> QED BY <1>1 DEF Balanced

LEMMA RequestSums ==
  ASSUME TypeInv, TypeInv', NEW p \in Products, Balanced(p), NEW s \in Sessions, Request(s)
  PROVE  Balanced(p)'
<1>1. ledger' = ledger
  BY DEF Request, OrderStart, CancelStart, UpdateStatus, AdjustStart, RowRead, BulkSetThreshold
<1>2. products'[p].stock = products[p].stock
  <2>1. ASSUME NEW chosen \in SUBSET Products, NEW threshold \in Thresholds,
               BulkSetThreshold(s, chosen, threshold)
        PROVE  products'[p].stock = products[p].stock
    BY <2>1 DEF BulkSetThreshold, TypeInv, TypeOK, Row
  <2>2. products' = products
          \/ \E chosen \in SUBSET Products, threshold \in Thresholds :
               BulkSetThreshold(s, chosen, threshold)
    BY DEF Request, OrderStart, CancelStart, UpdateStatus, AdjustStart, RowRead
  <2> QED BY <2>1, <2>2
<1>3. products'[p].stock = StockAfter(p, ledger'[p])
  BY <1>1, <1>2 DEF Balanced
<1>4. ASSUME UNCHANGED <<tx, pc>> PROVE Balanced(p)'
  BY <1>1, <1>2, <1>4, StillSums
<1>5. ASSUME NEW kind \in {"settings", "update"}, NEW q \in Products, RowRead(s, kind, q)
      PROVE  Balanced(p)'
  <2>1. /\ tx'[s] = [IdleTx EXCEPT !.kind = kind, !.row = products[q],
                                   !.todo = <<[product |-> q, qty |-> 0]>>]
        /\ Others(s) /\ products' = products
    BY <1>5 DEF RowRead, Others, TypeInv, TypeOK
  <2>2. tx'[s].entries[p] = <<>> /\ tx'[s].row = products[q] /\ Target(s)' = q
    BY <2>1 DEF IdleTx, Target
  <2>3. ledger'[p] \o <<>> = ledger'[p]
    <3>1. ledger'[p] \in Seq(Movement)
      BY DEF TypeInv, TypeOK
    <3> QED BY <3>1
  <2>4. Even(s, p)'
    BY <1>3, <2>1, <2>2, <2>3 DEF Even, View, Wrote
  <2> QED BY <1>1, <1>2, <1>3, <2>1, <2>4, BalanceOfOne
<1>6. ASSUME tx'[s].entries = IdleTx.entries, pc'[s] \notin {"save", "rowsave"}, Others(s)
      PROVE  Balanced(p)'
  <2>1. tx'[s].entries[p] = <<>>
    BY <1>6 DEF IdleTx
  <2> QED BY <1>1, <1>2, <1>3, <1>6, <2>1, IdleSums
<1>7. ASSUME NEW u \in Users, OrderStart(s, u) PROVE Balanced(p)'
  <2>1. tx'[s].entries = IdleTx.entries /\ pc'[s] = "check" /\ Others(s)
    BY <1>7 DEF OrderStart, IdleTx, Others, TypeInv, TypeOK
  <2> QED BY <1>6, <2>1
<1>8. ASSUME NEW o \in Orders, CancelStart(s, o) PROVE Balanced(p)'
  <2>1. tx'[s].entries = IdleTx.entries /\ pc'[s] = "ordersave" /\ Others(s)
    BY <1>8 DEF CancelStart, IdleTx, Others, TypeInv, TypeOK
  <2> QED BY <1>6, <2>1
<1>9. ASSUME NEW q \in Products, NEW qty \in Quantities, AdjustStart(s, q, qty)
      PROVE  Balanced(p)'
  <2>1. tx'[s].entries = IdleTx.entries /\ pc'[s] = "read" /\ Others(s)
    BY <1>9 DEF AdjustStart, IdleTx, Others, TypeInv, TypeOK
  <2> QED BY <1>6, <2>1
<1> QED
  BY <1>4, <1>5, <1>7, <1>8, <1>9 DEF Request, UpdateStatus, BulkSetThreshold

LEMMA AdjustReadSums ==
  ASSUME TypeInv, TypeInv', NEW p \in Products, Balanced(p), NEW s \in Sessions, AdjustRead(s)
  PROVE  Balanced(p)'
<1>1. tx[s] \in Tx /\ Target(s) \in Products
  BY SessionTypes, LineTypes DEF AdjustRead, TypeInv, Shape, SessionShape
<1>2. /\ tx'[s] = [tx[s] EXCEPT !.row = View(s, Target(s))]
      /\ UNCHANGED <<products, ledger>> /\ Others(s)
  BY DEF AdjustRead, Others, TypeInv, TypeOK
<1>3. /\ tx'[s].row = View(s, Target(s)) /\ tx'[s].todo = tx[s].todo
      /\ tx'[s].entries = tx[s].entries /\ tx'[s].work = tx[s].work
  BY <1>1, <1>2 DEF Tx
<1>4. View(s, p)' = View(s, p) /\ Target(s)' = Target(s)
  BY <1>2, <1>3 DEF View, Wrote, Target
<1>5. Target(s) = p => tx'[s].row.stock = View(s, p)'.stock
  BY <1>3, <1>4
<1>6. View(s, p)'.stock = StockAfter(p, ledger'[p] \o tx'[s].entries[p])
  BY <1>2, <1>3, <1>4 DEF Balanced, Even
<1>7. Even(s, p)'
  BY <1>4, <1>5, <1>6 DEF Even
<1>8. products'[p].stock = StockAfter(p, ledger'[p])
  BY <1>2 DEF Balanced
<1> QED BY <1>2, <1>7, <1>8, BalanceOfOne

LEMMA AdjustSaveSums ==
  ASSUME TypeInv, TypeInv', NEW p \in Products, Balanced(p), NEW s \in Sessions, AdjustSave(s)
  PROVE  Balanced(p)'
<1>1. /\ pc[s] = "save" /\ tx'[s] = AdjustedTx(s) /\ pc'[s] \in {"commit", "read"}
      /\ UNCHANGED <<products, ledger>> /\ Others(s)
  BY DEF AdjustSave, Others, TypeInv, TypeOK
<1>2. tx[s] \in Tx /\ Target(s) \in Products /\ Delta(s) \in Int
  BY <1>1, SessionTypes, LineTypes DEF TypeInv, Shape, SessionShape
<1>3. AdjustMovement(s) \in Movement /\ AdjustMovement(s).delta = Delta(s)
  BY <1>1, AdjustedTxType DEF AdjustMovement
<1>4. CASE Target(s) # p
  <2>1. tx'[s].entries[p] = tx[s].entries[p] /\ tx'[s].work[p] = tx[s].work[p]
    BY <1>1, <1>2, <1>4 DEF AdjustedTx, Tx
  <2> QED BY <1>1, <2>1, QuietSums
<1>5. CASE Target(s) = p
  <2>1. /\ tx'[s].entries[p] = Append(tx[s].entries[p], AdjustMovement(s))
        /\ tx'[s].work[p] = HandleThreshold(AdjustedRow(s))
    BY <1>1, <1>2, <1>5 DEF AdjustedTx, Tx
  <2>2. ledger[p] \in Seq(Movement) /\ tx[s].entries[p] \in Seq(Movement)
    BY SessionTypes DEF TypeInv, TypeOK
  <2>3. View(s, p)' = HandleThreshold(AdjustedRow(s))
    <3>1. Append(tx[s].entries[p], AdjustMovement(s)) # <<>>
      BY <1>3, <2>2
    <3> QED BY <2>1, <3>1 DEF View, Wrote
  <2>4. View(s, p)'.stock = tx[s].row.stock + Delta(s)
    BY <1>1, <2>3, AdjustedRowType, HandleThresholdType
  <2>5. tx[s].row.stock = StockAfter(p, ledger[p] \o tx[s].entries[p])
    BY <1>1, <1>5 DEF Balanced, Even
  <2>6. ledger'[p] \o tx'[s].entries[p]
          = Append(ledger[p] \o tx[s].entries[p], AdjustMovement(s))
    <3>1. PICK m \in Movement : m = AdjustMovement(s)
      BY <1>3
    <3>2. PICK a \in Seq(Movement), b \in Seq(Movement) :
            a = ledger[p] /\ b = tx[s].entries[p]
      BY <2>2
    <3>3. a \o Append(b, m) = Append(a \o b, m)
      BY ConcatAppend
    <3> QED BY <1>1, <2>1, <3>1, <3>2, <3>3
  <2>7. ledger[p] \o tx[s].entries[p] \in Seq(Movement)
    BY <2>2
  <2>8. StockAfter(p, Append(ledger[p] \o tx[s].entries[p], AdjustMovement(s)))
          = StockAfter(p, ledger[p] \o tx[s].entries[p]) + Delta(s)
    BY <1>3, <2>7, StockAfterAppend
  <2>9. Even(s, p)'
    BY <1>1, <2>4, <2>5, <2>6, <2>8 DEF Even
  <2>10. products'[p].stock = StockAfter(p, ledger'[p])
    BY <1>1 DEF Balanced
  <2> QED BY <1>1, <2>9, <2>10, BalanceOfOne
<1> QED BY <1>4, <1>5

\* A commit of a row nobody else holds: the row has the stock its new ledger accounts for.
LEMMA CommitSums ==
  ASSUME TypeInv, TypeInv', NEW p \in Products, Balanced(p), NEW s \in Sessions, Commit(s),
         p \notin overtaken'
  PROVE  Balanced(p)'
<1>1. /\ products'[p] = View(s, p) /\ ledger'[p] = ledger[p] \o tx[s].entries[p]
      /\ pc'[s] \in {"clear", "idle"} /\ Others(s)
      /\ tx'[s] = IdleTx \/ tx'[s] = [IdleTx EXCEPT !.kind = "order", !.user = tx[s].user]
  BY DEF Commit, Others, TypeInv, TypeOK
<1>2. tx'[s].entries[p] = <<>>
  <2>1. CASE tx'[s] = IdleTx
    BY <2>1 DEF IdleTx
  <2>2. CASE tx'[s] = [IdleTx EXCEPT !.kind = "order", !.user = tx[s].user]
    BY <2>2 DEF IdleTx
  <2> QED BY <1>1, <2>1, <2>2
<1>3. products'[p].stock = StockAfter(p, ledger'[p])
  BY <1>1 DEF Balanced, Even
<1>4. CASE Wrote(s, p)
  <2>1. \A t \in Sessions \ {s} : ~HoldsRow(t, p)
    BY <1>4 DEF Commit, InHands, Written
  <2> QED BY <1>1, <1>2, <1>3, <2>1, IdleSums
<1>5. CASE ~Wrote(s, p)
  <2>1. ledger[p] \o <<>> = ledger[p]
    <3>1. ledger[p] \in Seq(Movement)
      BY DEF TypeInv, TypeOK
    <3> QED BY <3>1
  <2>2. ledger'[p] = ledger[p] /\ products'[p].stock = products[p].stock
    BY <1>1, <1>5, <2>1 DEF View, Wrote
  <2> QED BY <1>1, <1>2, <1>3, <2>2, IdleSums
<1> QED BY <1>4, <1>5

\* A form saves the stock it read, which nobody has changed since.
LEMMA FormSums ==
  ASSUME TypeInv, TypeInv', FormsBlank, NEW p \in Products, Balanced(p), NEW s \in Sessions,
         NEW threshold,
         SettingsSave(s, threshold) \/ \E quantity : UpdateSave(s, threshold, quantity)
  PROVE  Balanced(p)' /\ \A q \in Products : tx'[s].entries[q] = <<>>
<1>1. SaveRow(s, threshold)
  BY DEF SettingsSave, UpdateSave
<1>2. /\ pc[s] = "rowsave" /\ ledger' = ledger /\ pc'[s] \in {"idle", "read"} /\ Others(s)
      /\ products' = [products EXCEPT ![Target(s)] = SavedRow(s, threshold)]
  BY DEF SettingsSave, UpdateSave, SaveRow, Others, TypeInv, TypeOK
<1>3. Target(s) \in Products /\ tx[s].row \in Row /\ tx[s] \in Tx
  BY <1>2, LineTypes, SessionTypes DEF TypeInv, Shape, SessionShape
<1>4. SavedRow(s, threshold).stock = tx[s].row.stock
  BY <1>3 DEF SavedRow, Row
<1>5. \A q \in Products : tx[s].entries[q] = <<>>
  BY <1>2 DEF FormsBlank
<1>6. products'[p].stock = products[p].stock
  <2>1. CASE Target(s) = p
    <3>1. tx[s].row.stock = products[p].stock
      BY <1>2, <1>5, <2>1 DEF Balanced, Even, View, Wrote
    <3> QED BY <1>2, <1>4, <2>1, <3>1 DEF TypeInv, TypeOK
  <2>2. CASE Target(s) # p
    BY <1>2, <2>2 DEF TypeInv, TypeOK
  <2> QED BY <2>1, <2>2
<1>7. \A q \in Products : tx'[s].entries[q] = <<>>
  <2>1. tx'[s] = IdleTx \/ tx'[s].entries = tx[s].entries
    <3>1. CASE tx' = [tx EXCEPT ![s] = IdleTx]
      BY <3>1 DEF TypeInv, TypeOK
    <3>2. ASSUME NEW todo, tx' = [tx EXCEPT ![s].row = BlankRow, ![s].todo = todo]
          PROVE  tx'[s].entries = tx[s].entries
      BY <1>3, <3>2 DEF Tx, TypeInv, TypeOK
    <3> QED BY <3>1, <3>2 DEF SettingsSave, UpdateSave
  <2> QED BY <1>5, <2>1 DEF IdleTx
<1>8. products'[p].stock = StockAfter(p, ledger'[p])
  BY <1>2, <1>6 DEF Balanced
<1> QED BY <1>2, <1>6, <1>7, <1>8, IdleSums

LEMMA ServeSums ==
  ASSUME TypeInv, TypeInv', FormsBlank, NEW p \in Products, Balanced(p), p \notin overtaken',
         NEW s \in Sessions, Serve(s)
  PROVE  Balanced(p)'
<1>1. ASSUME UNCHANGED <<products, ledger>>, pc'[s] \notin {"save", "rowsave"}, Others(s),
             tx'[s].entries = tx[s].entries, tx'[s].work = tx[s].work
      PROVE  Balanced(p)'
  BY <1>1, QuietSums
<1>2. ASSUME UNCHANGED <<products, ledger>>, pc'[s] = "idle", Others(s), tx'[s] = IdleTx
      PROVE  Balanced(p)'
  <2>1. tx'[s].entries[p] = <<>>
    BY <1>2 DEF IdleTx
  <2> QED BY <1>2, <2>1, IdleSums DEF Balanced
<1>3. tx[s] \in Tx
  BY SessionTypes
<1>4. ASSUME CheckLine(s) PROVE Balanced(p)'
  <2>1. /\ UNCHANGED <<products, ledger>> /\ pc'[s] = "check" /\ Others(s)
        /\ tx'[s].entries = tx[s].entries /\ tx'[s].work = tx[s].work
    BY <1>3, <1>4 DEF CheckLine, Others, Tx, TypeInv, TypeOK
  <2> QED BY <1>1, <2>1
<1>5. ASSUME NEW o \in Orders, InsertOrder(s, o) PROVE Balanced(p)'
  <2>1. /\ UNCHANGED <<products, ledger>>
        /\ tx' = [tx EXCEPT ![s].order = o, ![s].todo = tx[s].lines]
        /\ pc' = [pc EXCEPT ![s] = "read"]
    BY <1>5 DEF InsertOrder
  <2>2. pc'[s] = "read" /\ Others(s)
    BY <2>1 DEF Others, TypeInv, TypeOK
  <2>3. tx'[s] = [tx[s] EXCEPT !.order = o, !.todo = tx[s].lines]
    BY <2>1 DEF TypeInv, TypeOK
  <2>4. tx'[s].entries = tx[s].entries /\ tx'[s].work = tx[s].work
    BY <1>3, <2>3 DEF Tx
  <2> QED BY <1>1, <2>1, <2>2, <2>4
<1>6. ASSUME CancelSave(s) PROVE Balanced(p)'
  BY <1>1, <1>6 DEF CancelSave, Others, TypeInv, TypeOK
<1>7. ASSUME Rollback(s) PROVE Balanced(p)'
  BY <1>2, <1>7 DEF Rollback, Others, TypeInv, TypeOK
<1>8. ASSUME ClearCart(s) PROVE Balanced(p)'
  BY <1>2, <1>8 DEF ClearCart, Others, TypeInv, TypeOK
<1> QED
  BY <1>4, <1>5, <1>6, <1>7, <1>8, AdjustReadSums, AdjustSaveSums, CommitSums, FormSums
  DEF Serve, NothingToOrder, AdjustRefuse, DeadlockVictim

\* Only a form begins to save a row, with nothing written.
LEMMA FormsStep ==
  ASSUME TypeInv, FormsBlank, [Next]_vars PROVE FormsBlank'
<1>1. ASSUME NEW s \in Sessions, Others(s), pc'[s] # "rowsave" PROVE FormsBlank'
  BY <1>1 DEF FormsBlank, Others
<1>2. ASSUME UNCHANGED <<tx, pc>> PROVE FormsBlank'
  BY <1>2 DEF FormsBlank
<1>3. ASSUME NEW s \in Sessions, Request(s) PROVE FormsBlank'
  <2>1. ASSUME NEW kind \in {"settings", "update"}, NEW q \in Products, RowRead(s, kind, q)
        PROVE  FormsBlank'
    <3>1. tx'[s].entries = [p \in Products |-> <<>>] /\ Others(s)
      BY <2>1 DEF RowRead, IdleTx, Others, TypeInv, TypeOK
    <3> QED BY <3>1 DEF FormsBlank, Others
  <2>2. ASSUME NEW u \in Users, OrderStart(s, u) PROVE FormsBlank'
    BY <1>1, <2>2 DEF OrderStart, Others, TypeInv, TypeOK
  <2>3. ASSUME NEW o \in Orders, CancelStart(s, o) PROVE FormsBlank'
    BY <1>1, <2>3 DEF CancelStart, Others, TypeInv, TypeOK
  <2>4. ASSUME NEW q \in Products, NEW qty \in Quantities, AdjustStart(s, q, qty)
        PROVE  FormsBlank'
    BY <1>1, <2>4 DEF AdjustStart, Others, TypeInv, TypeOK
  <2> QED BY <1>2, <1>3, <2>1, <2>2, <2>3, <2>4 DEF Request, UpdateStatus, BulkSetThreshold
<1>4. ASSUME NEW s \in Sessions, Serve(s) PROVE FormsBlank'
  <2>1. Others(s) /\ pc'[s] # "rowsave"
    BY <1>4 DEF Serve, CheckLine, NothingToOrder, InsertOrder, CancelSave, AdjustRead,
                AdjustRefuse, AdjustSave, Commit, ClearCart, DeadlockVictim, SettingsSave,
                UpdateSave, SaveRow, Rollback, Others, TypeInv, TypeOK
  <2> QED BY <1>1, <2>1
<1>5. CASE ApiCrash
  BY <1>5 DEF ApiCrash, FormsBlank
<1>6. Worker \/ Deliver \/ WorkerCrash \/ UNCHANGED vars => UNCHANGED <<tx, pc>>
  BY DEF Worker, ScanList, ScanVisit, Deliver, DeliverAlert, NotifyFails, ListAdminsFails,
         PassOver, WorkerCrash, vars
<1> QED BY <1>2, <1>3, <1>4, <1>5, <1>6 DEF Next

\* No step forgets a row that was overtaken.
LEMMA OvertakenGrows == [Next]_vars => overtaken \subseteq overtaken'
<1> SUFFICES ASSUME [Next]_vars PROVE overtaken \subseteq overtaken'
  OBVIOUS
<1>1. ASSUME NEW s \in Sessions, Request(s) PROVE overtaken' = overtaken
  BY <1>1 DEF Request, OrderStart, CancelStart, UpdateStatus, AdjustStart, RowRead,
              BulkSetThreshold
<1>2. ASSUME NEW s \in Sessions, Serve(s) PROVE overtaken \subseteq overtaken'
  <2>1. AdjustSave(s) \/ AdjustRead(s) \/ AdjustRefuse(s) \/ DeadlockVictim(s)
          => overtaken' = overtaken
    BY DEF AdjustSave, AdjustRead, AdjustRefuse, DeadlockVictim, Rollback
  <2>2. CheckLine(s) \/ NothingToOrder(s) \/ (\E o \in Orders : InsertOrder(s, o))
          => overtaken' = overtaken
    BY DEF CheckLine, NothingToOrder, InsertOrder, Rollback
  <2>3. CancelSave(s) \/ ClearCart(s) => overtaken' = overtaken
    BY DEF CancelSave, ClearCart
  <2>4. Commit(s) => overtaken \subseteq overtaken'
    BY DEF Commit
  <2>5. ASSUME NEW threshold, SaveRow(s, threshold) PROVE overtaken \subseteq overtaken'
    BY <2>5 DEF SaveRow
  <2> QED BY <1>2, <2>1, <2>2, <2>3, <2>4, <2>5 DEF Serve, SettingsSave, UpdateSave
<1>3. Worker \/ Deliver => overtaken' = overtaken
  BY DEF Worker, ScanList, ScanVisit, Deliver, DeliverAlert, NotifyFails, ListAdminsFails,
         PassOver
<1>4. ApiCrash \/ WorkerCrash \/ UNCHANGED vars => overtaken' = overtaken
  BY DEF ApiCrash, WorkerCrash, vars
<1> QED BY <1>1, <1>2, <1>3, <1>4 DEF Next

\* Every step keeps every row that is not overtaken in balance with its ledger.
LEMMA SumsStep == TypeInv /\ TypeInv' /\ Sums /\ [Next]_vars => Sums'
<1> SUFFICES ASSUME TypeInv, TypeInv', Sums, [Next]_vars, NEW p \in Products, p \notin overtaken'
             PROVE  Balanced(p)'
  BY FormsStep DEF Sums
<1>1. overtaken \subseteq overtaken'
  BY OvertakenGrows
<1>2. FormsBlank /\ Balanced(p)
  BY <1>1 DEF Sums
<1>3. ASSUME NEW q \in Products, ScanVisit(q) PROVE Balanced(p)'
  <2>1. products' = [products EXCEPT ![q] = ScannedRow(q)] /\ ledger' = ledger
        /\ UNCHANGED <<tx, pc>>
    BY <1>3 DEF ScanVisit
  <2>2. ScannedRow(q).stock = products[q].stock
    BY ScannedRowType
  <2>3. products'[p].stock = products[p].stock
    BY <2>1, <2>2 DEF TypeInv, TypeOK
  <2> QED BY <1>2, <2>1, <2>3, StillSums
<1>4. CASE ApiCrash
  <2>1. UNCHANGED <<products, ledger>>
        /\ \A s \in Sessions : pc'[s] = "idle" /\ tx'[s].entries[p] = <<>>
    BY <1>4 DEF ApiCrash, IdleTx
  <2>2. ledger[p] \o <<>> = ledger[p]
    <3>1. ledger[p] \in Seq(Movement)
      BY DEF TypeInv, TypeOK
    <3> QED BY <3>1
  <2> QED BY <1>2, <2>1, <2>2 DEF Balanced, Even, View, Wrote
<1>5. ScanList \/ Deliver \/ WorkerCrash \/ UNCHANGED vars
        => UNCHANGED <<tx, pc, ledger, products>>
  BY DEF ScanList, Deliver, DeliverAlert, NotifyFails, ListAdminsFails, PassOver,
         WorkerCrash, vars
<1>6. ASSUME UNCHANGED <<tx, pc, ledger, products>> PROVE Balanced(p)'
  BY <1>2, <1>6, StillSums
<1> QED BY <1>2, <1>3, <1>4, <1>5, <1>6, RequestSums, ServeSums DEF Next, Worker

LEMMA InitSums == Init => Sums
<1> SUFFICES ASSUME Init PROVE Sums
  OBVIOUS
<1>1. ASSUME NEW p \in Products PROVE products[p].stock = StockAfter(p, ledger[p])
  BY <1>1, StockAfterNone DEF Init
<1>2. ASSUME NEW s \in Sessions, NEW p \in Products PROVE Even(s, p)
  <2>1. pc[s] = "idle" /\ tx[s].entries[p] = <<>> /\ ledger[p] = <<>>
    BY DEF Init, IdleTx
  <2>2. <<>> \o <<>> = <<>>
    OBVIOUS
  <2> QED BY <1>1, <2>1, <2>2 DEF Even, View, Wrote
<1>3. FormsBlank
  BY DEF Init, FormsBlank
<1> QED BY <1>1, <1>2, <1>3 DEF Sums, Balanced

\* LedgerExact, for any products, quantities and number of requests, concurrent or not, with
\* any crashes, deadlocks and scans: the ledger accounts for every unit of a product's
\* stock, unless its row was written while another request held a copy of it.
THEOREM LedgerIsExact == Spec => []LedgerExact
<1>1. Sums => LedgerExact
  BY DEF Sums, Balanced, LedgerExact, LedgerStock, StockAfter
<1>2. Spec => []Sums
  BY SumsStep, InitSums, TypesHold, PTL DEF Spec
<1> QED BY <1>1, <1>2, PTL
=============================================================================
