------------------------------- MODULE MCFleet -------------------------------
(* Instances of Fleet for TLC: two companies; one site with a DC charger, its *)
(* plug and two tariffs of one of them, the first active; a second site,      *)
(* charger and plug and a third tariff may be added.                          *)
EXTENDS Discovery

CONSTANTS coA, coB

MCIds == [station |-> {"s1", "s2"}, charger |-> {"ch1", "ch2"},
          connector |-> {"k1", "k2"}, tariff |-> {"t1", "t2", "t3"}]

MCValues == [code |-> {"B"}, ocppId |-> {"Y"}, chargerType |-> {"AC"},
             latitude |-> {1}, longitude |-> {0}, number |-> {2},
             connectorType |-> {"CCS2"}, price |-> {1500},
             chargerStatus |-> {"maintenance"},
             connectorStatus |-> {"available"},
             report |-> {"Faulted"}]

MCStored ==
  {[station |-> [s \in {"s1"} |-> [company |-> coA, code |-> "A", status |-> "active",
                                   latitude |-> 0, longitude |-> 0, location |-> <<0, 0>>]],
    charger |-> [c \in {"ch1"} |-> [station |-> "s1", company |-> coA, code |-> "A",
                                    ocppId |-> "X", chargerType |-> "DC",
                                    status |-> "available", hardwareStatus |-> "operative",
                                    faultReportedAt |-> 0]],
    connector |-> [k \in {"k1"} |-> [charger |-> "ch1", number |-> 1,
                                     connectorType |-> "Type2", status |-> "available"]],
    tariff |-> [t \in {"t1", "t2"} |-> [company |-> coA, price |-> 1200,
                                        status |-> IF t = "t1" THEN "active"
                                                   ELSE "inactive"]]]}
=============================================================================
