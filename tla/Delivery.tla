------------------------------ MODULE Delivery ------------------------------
(***************************************************************************)
(* What docs/notifications.md promises of an email: once Notify has made   *)
(* its row, it is sent, or given up after its retries, whatever happens to *)
(* Redis, the queue and the processes in between.                          *)
(***************************************************************************)
CONSTANT Mails

VARIABLE outcome

Accept(m) ==
  /\ outcome[m] = "none"
  /\ outcome' = [outcome EXCEPT ![m] = "accepted"]

Deliver(m) ==
  /\ outcome[m] \in {"accepted", "failed"}
  /\ outcome' = [outcome EXCEPT ![m] = "delivered"]

GiveUp(m) ==
  /\ outcome[m] = "accepted"
  /\ outcome' = [outcome EXCEPT ![m] = "failed"]

\* A second worker that read the mail before it failed takes it up again.
TakeUp(m) ==
  /\ outcome[m] = "failed"
  /\ outcome' = [outcome EXCEPT ![m] = "accepted"]

Settle(m) == Deliver(m) \/ GiveUp(m)

Init == outcome = [m \in Mails |-> "none"]
Next == \E m \in Mails : Accept(m) \/ Settle(m) \/ TakeUp(m)

\* What may happen to an email, and that something does.
Safe == Init /\ [][Next]_outcome
Spec == Safe /\ \A m \in Mails : WF_outcome(outcome[m] = "accepted" /\ Settle(m))
=============================================================================
