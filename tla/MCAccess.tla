------------------------------ MODULE MCAccess ------------------------------
(* Instances of Access for TLC: a platform administrator, the administrator  *)
(* of one company and a driver; two accounts, one company and two cars may   *)
(* be added.                                                                 *)
EXTENDS Pages, TLC

CONSTANTS s1, a1, d1, u1, u2, k1, k2

MCAccounts ==
  s1 :> [email |-> "s", role |-> "super_admin", company |-> Nothing, status |-> "active"] @@
  a1 :> [email |-> "a", role |-> "cpo_admin", company |-> k1, status |-> "active"] @@
  d1 :> [email |-> "d", role |-> "driver", company |-> Nothing, status |-> "active"]

MCOperators == k1 :> [name |-> "K", status |-> "active"]

Symmetry == Permutations(Slots) \cup Permutations(Vehicles) \cup Permutations({u1, u2})
=============================================================================
