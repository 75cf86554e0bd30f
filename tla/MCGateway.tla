------------------------------ MODULE MCGateway ------------------------------
(* Instances of Gateway for TLC: one charger dialling in twice, at most one  *)
(* command sent to it.                                                       *)
EXTENDS Gateway
=============================================================================
