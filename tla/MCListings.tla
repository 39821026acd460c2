----------------------------- MODULE MCListings -----------------------------
(***************************************************************************)
(* Listings for TLC: a table starts with two like rows, one after the      *)
(* other or at the same time, or, of messages, with none.                  *)
(***************************************************************************)
EXTENDS Listings, TLC

TwoRows ==
  \E second \in 1 .. 2, d \in This.data :
    rows = {[id |-> i, key |-> IF i = 1 THEN 1 ELSE second, data |-> d] : i \in 1 .. 2}

MCInit ==
  /\ list \in DOMAIN Listings
  /\ (list = "messages" /\ rows = {}) \/ TwoRows
  /\ clock = 2 /\ stamps = [w \in Writers |-> 0] /\ changes = 0
  /\ walk = NoWalk /\ stayed = {} /\ causes = {}

MCSpec == MCInit /\ [][Next]_vars

Interchangeable == Permutations(Writers)
=============================================================================
