--------------------------- MODULE MCOrderPayments ---------------------------
(***************************************************************************)
(* Instances of OrderPayments for TLC: one order, two checkouts of it (a   *)
(* second Initialize, a second payment) and two refunds, which is what the *)
(* races on one row need; orders do not share anything.                    *)
(***************************************************************************)
EXTENDS OrderPayments, TLC

Interchangeable == Permutations(References) \cup Permutations(RefundIds)
                     \cup Permutations(Sessions)
=============================================================================
