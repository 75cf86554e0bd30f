----------------------------- MODULE Discovery ------------------------------
(***************************************************************************)
(* What drivers are told about the fleet: the markers of the map, the list *)
(* of a station's plugs, and the look at one plug before a charge.         *)
(*                                                                         *)
(* Sources: backend/src/services/stationMap.service.ts, the lookups of     *)
(* chargingSession.service.ts.                                             *)
(*                                                                         *)
(* Each is computed from the documents in one go here; in the code a list  *)
(* takes several reads, and what it says may be out of date by its end, as *)
(* it may by the time a driver reads it.  Left out: searching, distances,  *)
(* limits, and whether the company is active, which Access is about.       *)
(***************************************************************************)
EXTENDS Fleet

At(s) == {c \in Docs("connector") : Doc("charger", Doc("connector", c).charger).station = s}

\* The plugs a marker counts as available.
availabilityByStation_plugOnly(s) == {c \in At(s) : Doc("connector", c).status = "available"}
availabilityByStation(s) ==
  {c \in At(s) :
     LET ch == Doc("charger", Doc("connector", c).charger)
     IN /\ ch.status = "available" /\ ch.hardwareStatus \notin {"faulted", "unavailable"}
        /\ Doc("connector", c).status = "available"}

\* The stations on a driver's map, with what their markers count.
listPublicStations ==
  [s \in {s \in Docs("station") : Doc("station", s).status = "active"} |->
     availabilityByStation(s)]

\* A plug looked up by its code, and the plugs of one station: which could start.
getConnectorForCharging(c) ==
  [canStart |-> canStart(c), priced |-> Priced(CompanyOfDoc("connector", Doc("connector", c)))]
listConnectorsForChargingAtStation(s) == [c \in At(s) |-> getConnectorForCharging(c)]

\* A marker never sends a driver to a plug that could not be used: of the plugs it
\* counts, the station's own list lets every one start, unless the operator has no
\* price, for which it says so (stationMap.service.ts:140, "would send drivers to a
\* charger the hardware had already written off").
MarkersAgreeWithPlugs ==
  \A s \in DOMAIN listPublicStations : \A c \in listPublicStations[s] :
    LET view == listConnectorsForChargingAtStation(s)[c] IN view.canStart \/ ~ view.priced
=============================================================================
