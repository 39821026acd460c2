----------------------------- MODULE MCInventory -----------------------------
(***************************************************************************)
(* Instances of Inventory for TLC.  Two products and two request sessions  *)
(* are what it takes for a lost update, for a deadlock of two orders and   *)
(* for a rollback half way through an order; the stock is a few units, and *)
(* the threshold is 1 or 2, so that one order crosses it.                  *)
(***************************************************************************)
EXTENDS Inventory

CONSTANTS p1, p2, u1, u2

MCStock == [p \in Products |-> IF p = p1 THEN 3 ELSE 2]
MCThreshold == [p \in Products |-> 1]

Lines(p, n) == <<[product |-> p, qty |-> n]>>

\* Two customers order the same two products, in opposite order.
MCCarts ==
  {[u \in Users |-> IF u = u1 THEN Lines(p1, 2) \o Lines(p2, 1)
                              ELSE Lines(p2, 1) \o Lines(p1, 1)]}

\* One product, ordered by everybody.
MCCartsOne == {[u \in Users |-> Lines(p1, 2)]}
MCStockOne == [p \in Products |-> 3]
MCStockTwo == [p \in Products |-> 2]

\* The same, and a cart that holds one product in two rows, and more of it than there
\* is: each row passes the check that precedes the order, both together do not.
MCCartsTwice ==
  MCCarts \cup {[u \in Users |-> IF u = u1 THEN Lines(p1, 2) \o Lines(p1, 2)
                                            ELSE Lines(p1, 2) \o Lines(p2, 1)]}

MCDeltas == {-1, 2}
MCTake == {-1}
MCThresholds == {0, 2}
MCRaise == {2}
MCRecipients == <<"admin", "vendor">>
MCVendorOnly == <<"vendor">>
=============================================================================
