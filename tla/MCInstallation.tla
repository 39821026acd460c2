--------------------------- MODULE MCInstallation ---------------------------
(***************************************************************************)
(* Instances of Installation for TLC.  Behaviours start from nothing or    *)
(* from a quote that has just been booked, so that few requests reach the  *)
(* races on the booking row.                                               *)
(***************************************************************************)
EXTENDS Installation, TLC

JustBooked ==
  /\ Idle
  /\ quotes = [q \in Quotes |-> "booked"]
  /\ \E chosen \in Lines :
       /\ lines = [q \in Quotes |-> [l \in Lines |->
                     [NoLine EXCEPT !.status =
                        IF l = chosen THEN "selected" ELSE "declined"]]]
       /\ bookings = [q \in Quotes |-> BookingOf(chosen, BasePrice)]
  /\ payments = [q \in Quotes |-> ManualPayment]

MCSpec == (Init \/ JustBooked) /\ [][Next]_vars

Interchangeable ==
  Permutations(Sessions) \cup Permutations(References) \cup Permutations(RefundIds)
=============================================================================
