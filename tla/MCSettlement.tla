---------------------------- MODULE MCSettlement ----------------------------
(* Small instances of Settlement for TLC: the debts of one wallet. *)
EXTENDS Settlement

CONSTANTS d1, s1, s2, r1, r2

OneWallet == [x \in Sessions \cup Recharges |-> d1]

\* A recharge covers two collections: a second one of the same session could succeed.
Prices == [x \in Sessions \cup Recharges |-> IF x \in Sessions THEN 2 ELSE 4]

\* A recharge covers the cheap session, never the dear one.
UnequalPrices ==
  [x \in Sessions \cup Recharges |-> CASE x = s1 -> 7 [] x = s2 -> 2 [] OTHER -> 3]

SlotSymmetry == Permutations(Slots)
=============================================================================
