----------------------------- MODULE MCAccounts -----------------------------
(***************************************************************************)
(* Instances of Accounts for TLC: from an empty database, and from one     *)
(* with an administrator and a verified mechanic.                          *)
(***************************************************************************)
EXTENDS Accounts, TLC

CONSTANTS Boss, Fitter, Secret

Staffed ==
  /\ NobodyYet
  /\ users = [u \in Users |->
       IF u = Boss THEN [role |-> "ADMIN", password |-> Secret]
       ELSE IF u = Fitter THEN [role |-> "MECHANIC", password |-> Secret] ELSE NoUser]
  /\ tokens = {<<Boss, "access">>, <<Fitter, "access">>}
  /\ profiles = [u \in Users |->
       IF u = Fitter THEN [NoProfile EXCEPT !.status = "verified"] ELSE NoProfile]
  /\ granted = [u \in Users |-> IF u = Boss THEN {"ADMIN"}
       ELSE IF u = Fitter THEN {"MECHANIC", "verified"} ELSE {}]

MCSpec == (Init \/ Staffed) /\ [][Next]_vars

Interchangeable == Permutations(Sessions)
=============================================================================
