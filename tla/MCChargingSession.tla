-------------------------- MODULE MCChargingSession --------------------------
(* Instances of ChargingSession for TLC. *)
EXTENDS ChargingSession, TLC

CONSTANTS ch1, ch2

\* All plugs on one machine (the two-gun charger of the repository's docs).
OneCharger == [c \in Connectors |-> ch1]

\* One plug on each of two machines.
TwoChargers ==
  LET first == CHOOSE c \in Connectors : TRUE
  IN  [c \in Connectors |-> IF c = first THEN ch1 ELSE ch2]

\* Sound with either layout of the plugs.
RequestSymmetry ==
  UNION {Permutations(Sessions), Permutations(Drivers), Permutations(Slots)}

\* Plugs can be exchanged too when they are on one machine.
Symmetry == RequestSymmetry \cup Permutations(Connectors)
=============================================================================
