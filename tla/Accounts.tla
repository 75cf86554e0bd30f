------------------------------ MODULE Accounts ------------------------------
(***************************************************************************)
(* What the payment code promises of money, with no trace of how:          *)
(* a recharge is credited once, a charging session is collected once and   *)
(* only from a balance that covers it, and a credited recharge may be      *)
(* reversed, again only from a balance that covers it.                     *)
(***************************************************************************)
EXTENDS Integers

CONSTANTS Drivers, Sessions, Recharges, WalletOf, Amount

VARIABLES balance, credited, collected

Init ==
  /\ balance = [d \in Drivers |-> 0]
  /\ credited = {}
  /\ collected = {}

Credit(r) ==
  /\ r \notin credited
  /\ credited' = credited \cup {r}
  /\ balance' = [balance EXCEPT ![WalletOf[r]] = @ + Amount[r]]
  /\ UNCHANGED collected

Collect(s) ==
  /\ s \notin collected
  /\ balance[WalletOf[s]] >= Amount[s]
  /\ collected' = collected \cup {s}
  /\ balance' = [balance EXCEPT ![WalletOf[s]] = @ - Amount[s]]
  /\ UNCHANGED credited

Reverse(r) ==
  /\ r \in credited
  /\ balance[WalletOf[r]] >= Amount[r]
  /\ balance' = [balance EXCEPT ![WalletOf[r]] = @ - Amount[r]]
  /\ UNCHANGED <<credited, collected>>

Next ==
  \/ \E r \in Recharges : Credit(r) \/ Reverse(r)
  \/ \E s \in Sessions : Collect(s)

Spec == Init /\ [][Next]_<<balance, credited, collected>>
=============================================================================
