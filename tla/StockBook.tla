------------------------------ MODULE StockBook ------------------------------
(***************************************************************************)
(* What the inventory promises about stock and its audit trail, without    *)
(* sessions, locks or transactions: the stock of a product is what the     *)
(* last entry of its book says, it is never negative, and the book is only *)
(* ever appended to.  One step may post several entries, for one product   *)
(* or several: the lines of one order.                                     *)
(***************************************************************************)
EXTENDS Integers, Sequences

CONSTANTS Products, InitStock

VARIABLES stock,  \* [Products -> Int]
          book    \* [Products -> sequence of entries with a field `after`]

bookVars == <<stock, book>>

\* The stock a book stands for.
Closing(p, entries) ==
  IF entries = <<>> THEN InitStock[p] ELSE entries[Len(entries)].after

BookInit ==
  /\ stock = InitStock
  /\ book = [p \in Products |-> <<>>]

Extends(old, new) ==
  /\ Len(old) <= Len(new)
  /\ \A i \in 1..Len(old) : new[i] = old[i]

Post ==
  /\ \A p \in Products : /\ Extends(book[p], book'[p])
                         /\ stock'[p] = Closing(p, book'[p])
                         /\ stock'[p] >= 0

BookSpec == BookInit /\ [][Post]_bookVars

=============================================================================
