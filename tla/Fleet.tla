------------------------------- MODULE Fleet --------------------------------
(***************************************************************************)
(* Stations, chargers, connectors and tariffs: what administrators do to   *)
(* them, and what the charge points report about themselves meanwhile.     *)
(*                                                                         *)
(* Sources: backend/src/services/station.service.ts, charger.service.ts,   *)
(* connector.service.ts, tariff.service.ts, the four models and their      *)
(* validators, the StatusNotification handlers of ocpp/handlers.ts, and    *)
(* the ends they put to sessions (sessionEvents.service.ts).               *)
(*                                                                         *)
(* An administrator's request reads its document, checks it against others *)
(* and saves it, with an await between each: three steps here, on the copy *)
(* of the first.  `save` writes the fields the copy changed, and a unique  *)
(* index has the last word.  A charge point's report is one atomic update, *)
(* and what a fault does to sessions comes after it, in further steps.     *)
(*                                                                         *)
(* Left out: names, addresses, ratings, list queries and tokens (Gateway   *)
(* has the token).  A charging session is only its plug being taken here;  *)
(* ChargingSession is about the rest of it, and Gateway about isOnline.    *)
(*                                                                         *)
(* Bounds: the documents (Ids), the values tried (Values), the requests at *)
(* once (Slots) and ever (MaxRequests), the reports (MaxReports).          *)
(***************************************************************************)
EXTENDS Naturals, FiniteSets

CONSTANTS
  Companies,
  Platform,      \* the platform administrator; a company's administrator is its name
  Ids,           \* the document ids, by kind
  Values,        \* the values administrators give to an editable field
  Stored,        \* what the collections may hold at the start
  Slots, MaxRequests, MaxReports

Kinds == {"station", "charger", "connector", "tariff"}
Actors == Companies \cup {Platform}

ASSUME FleetAssumption ==
  /\ MaxRequests \in Nat /\ MaxReports \in Nat
  /\ Platform \notin Companies
  /\ DOMAIN Ids = Kinds

VARIABLES
  store,      \* by kind, the documents that exist
  request,    \* the request in each slot
  requests,   \* how many have been made
  starting,   \* the connectors a start has found usable and not yet taken
  open,       \* the open sessions: their connector, and `reports` when created
  failing,    \* the ends of sessions a fault has asked for
  reports     \* how many reports there were; the clock of faultReportedAt

adminVars == <<request, requests>>
hardwareVars == <<starting, open, failing, reports>>
vars == <<store, adminVars, hardwareVars>>

-----------------------------------------------------------------------------
(* The documents *)

STATION_STATUSES == {"active", "inactive", "suspended"}
CPO_SETTABLE_STATION_STATUSES == {"active", "inactive"}
CHARGER_TYPES == {"AC", "DC"}
CHARGER_STATUSES == {"available", "unavailable", "faulted", "maintenance"}
CHARGER_HARDWARE_STATUSES == {"operative", "faulted", "unavailable"}
CONNECTOR_TYPES == {"CCS2", "CHAdeMO", "Type2", "GBT"}
DC_ONLY_CONNECTOR_TYPES == {"CCS2", "CHAdeMO"}
CONNECTOR_STATUSES == {"available", "occupied", "faulted", "unavailable",
                       "preparing", "charging", "finishing"}
TARIFF_STATUSES == {"active", "inactive"}

Station == [company : Companies, code : STRING, status : STATION_STATUSES,
            latitude : Nat, longitude : Nat, location : Nat \X Nat]
Charger == [station : Ids.station, company : Companies, code : STRING,
            ocppId : STRING, chargerType : CHARGER_TYPES, status : CHARGER_STATUSES,
            hardwareStatus : CHARGER_HARDWARE_STATUSES, faultReportedAt : Nat]
Connector == [charger : Ids.charger, number : 1..8, connectorType : CONNECTOR_TYPES,
              status : CONNECTOR_STATUSES]
Tariff == [company : Companies, status : TARIFF_STATUSES, price : Nat]

Docs(kind) == DOMAIN store[kind]
Doc(kind, id) == store[kind][id]

\* syncLocation: before a station is validated its point is derived from the
\* two numbers of the copy at hand.
syncLocation(s) == [s EXCEPT !.location = <<s.longitude, s.latitude>>]

\* What a document must not share with another of its kind: its unique indexes.
\* The one of a tariff is partial, on active ones.
Identities(kind, d) ==
  CASE kind = "station"   -> {<<"code", d.company, d.code>>}
    [] kind = "charger"   -> {<<"ocppId", d.ocppId>>, <<"code", d.station, d.code>>}
    [] kind = "connector" -> {<<"number", d.charger, d.number>>}
    [] kind = "tariff"    -> IF d.status = "active" THEN {<<"active", d.company>>} ELSE {}

Taken(kind, id) == UNION {Identities(kind, Doc(kind, o)) : o \in Docs(kind) \ {id}}

Schema == [station |-> Station, charger |-> Charger, connector |-> Connector, tariff |-> Tariff]
Distinct(kind, docs) ==
  \A i, j \in DOMAIN docs : i # j => Identities(kind, docs[i]) \cap Identities(kind, docs[j]) = {}

\* The validators let nothing through that the schema refuses, and the collections start as
\* the models, their indexes and the creation of a plug under a charger leave them.
ASSUME InputsAssumption ==
  /\ Values.code \subseteq STRING /\ Values.ocppId \subseteq STRING
  /\ Values.latitude \subseteq Nat /\ Values.longitude \subseteq Nat
  /\ Values.number \subseteq 1..8 /\ Values.price \subseteq Nat
  /\ Values.chargerType \subseteq CHARGER_TYPES
  /\ Values.connectorType \subseteq CONNECTOR_TYPES
  /\ Values.chargerStatus \subseteq CHARGER_STATUSES
  /\ Values.connectorStatus \subseteq CONNECTOR_STATUSES
  /\ Values.report \subseteq {"Available", "Preparing", "Charging", "Finishing", "Faulted",
                             "Unavailable", "SuspendedEV", "SuspendedEVSE", "Reserved"}
ASSUME StoredAssumption ==
  \A s \in Stored :
    /\ DOMAIN s = Kinds
    /\ \A kind \in Kinds : /\ DOMAIN s[kind] \subseteq Ids[kind]
                           /\ \A id \in DOMAIN s[kind] : s[kind][id] \in Schema[kind]
                           /\ Distinct(kind, s[kind])
    /\ \A c \in DOMAIN s.connector : s.connector[c].charger \in DOMAIN s.charger

IndexAdmits_checkOnly(kind, id, d) == TRUE
IndexAdmits(kind, id, d) == Identities(kind, d) \cap Taken(kind, id) = {}

\* mongoose writes the fields in which the copy differs from what was read.
Saved(stored, old, new) ==
  [f \in DOMAIN stored |-> IF new[f] = old[f] THEN stored[f] ELSE new[f]]

Put(kind, id, d) ==
  store' = [store EXCEPT ![kind] = [o \in Docs(kind) \cup {id} |-> IF o = id THEN d ELSE @[o]]]

-----------------------------------------------------------------------------
(* Who may touch a document: applyCompanyScope *)

CompanyOfDoc(kind, d) ==
  IF kind = "connector" THEN Doc("charger", d.charger).company ELSE d.company
InScope(a, kind, d) == a = Platform \/ CompanyOfDoc(kind, d) = a

-----------------------------------------------------------------------------
(* A request: read, check, save *)

NoDoc == [none |-> TRUE]
Idle == [step |-> "idle", kind |-> "none", id |-> "none", old |-> NoDoc, new |-> NoDoc]

\* A new request takes the first free slot, since slots are alike.
FirstFree ==
  LET free == {p \in Slots : request[p] = Idle}
  IN IF free = {} \/ requests = MaxRequests THEN {} ELSE {CHOOSE p \in free : TRUE}

\* The request has read its document, or found what it needs to create one.
Begin(p, step, kind, id, old, new) ==
  /\ requests' = requests + 1
  /\ request' = [request EXCEPT ![p] = [step |-> step, kind |-> kind, id |-> id,
                                        old |-> old, new |-> new]]
  /\ UNCHANGED <<store, hardwareVars>>

Free(kind) == {id \in Ids[kind] \ Docs(kind) : \A p \in Slots : request[p].id # id}

\* The fields a PATCH may carry, by the strict schemas: never a status, a
\* company or a parent.
Editable(kind) ==
  CASE kind = "station" -> {"code", "latitude", "longitude"}
    [] kind = "charger" -> {"code", "ocppId", "chargerType"}
    [] kind = "connector" -> {"number", "connectorType"} [] kind = "tariff" -> {"price"}

\* assertPlugFitsCharger looks at the charger as this request read it.
assertPlugFitsCharger(d) ==
  Doc("charger", d.charger).chargerType = "AC" => d.connectorType \notin DC_ONLY_CONNECTOR_TYPES

\* A PATCH of one field of a document in scope.  Only that of a plug's type asks
\* whether the plug fits its charger.
update(p, a, kind, id, step) ==
  /\ id \in Docs(kind) /\ InScope(a, kind, Doc(kind, id))
  /\ \E f \in Editable(kind) : \E v \in Values[f] :
       LET d == [Doc(kind, id) EXCEPT ![f] = v]
       IN /\ d # Doc(kind, id)
          /\ f = "connectorType" => assertPlugFitsCharger(d)
          /\ Begin(p, step, kind, id, Doc(kind, id),
                   IF kind = "station" THEN syncLocation(d) ELSE d)

\* A PATCH of the status of a document in scope.
setStatus(p, kind, id, status) ==
  /\ status # Doc(kind, id).status
  /\ Begin(p, "save", kind, id, Doc(kind, id), [Doc(kind, id) EXCEPT !.status = status])

-----------------------------------------------------------------------------
(* station.service.ts *)

\* The platform names a company, a company's administrator creates for theirs.
createStation(p, a, id) ==
  /\ id \in Free("station")
  /\ \E co \in Companies, code \in Values.code :
       /\ a \in {Platform, co}
       /\ Begin(p, "check", "station", id, NoDoc,
                [company |-> co, code |-> code, status |-> "active",
                 latitude |-> 0, longitude |-> 0, location |-> <<0, 0>>])

updateStation(p, a, id) == update(p, a, "station", id, "check")

setStationStatus(p, a, id) ==
  /\ id \in Docs("station") /\ InScope(a, "station", Doc("station", id))
  /\ \E status \in STATION_STATUSES :
       /\ a # Platform => /\ status \in CPO_SETTABLE_STATION_STATUSES
                          /\ Doc("station", id).status # "suspended"
       /\ setStatus(p, "station", id, status)

-----------------------------------------------------------------------------
(* charger.service.ts *)

\* The company comes from the station, not from the caller.
createCharger(p, a, id) ==
  /\ id \in Free("charger")
  /\ \E s \in Docs("station"), code \in Values.code, ocppId \in Values.ocppId,
        type \in Values.chargerType :
       /\ InScope(a, "station", Doc("station", s))
       /\ Begin(p, "check", "charger", id, NoDoc,
                [station |-> s, company |-> Doc("station", s).company, code |-> code,
                 ocppId |-> ocppId, chargerType |-> type, status |-> "available",
                 hardwareStatus |-> "operative", faultReportedAt |-> 0])

updateCharger(p, a, id) == update(p, a, "charger", id, "check")

setChargerStatus_clearsFault(p, a, id) ==
  /\ id \in Docs("charger") /\ InScope(a, "charger", Doc("charger", id))
  /\ \E status \in Values.chargerStatus :
       /\ status # Doc("charger", id).status
       /\ Begin(p, "save", "charger", id, Doc("charger", id),
                [Doc("charger", id) EXCEPT !.status = status, !.hardwareStatus = "operative"])
setChargerStatus(p, a, id) ==
  /\ id \in Docs("charger") /\ InScope(a, "charger", Doc("charger", id))
  /\ \E status \in Values.chargerStatus : setStatus(p, "charger", id, status)

-----------------------------------------------------------------------------
(* connector.service.ts *)

createConnector(p, a, id) ==
  /\ id \in Free("connector")
  /\ \E c \in Docs("charger"), n \in Values.number, type \in Values.connectorType :
       LET d == [charger |-> c, number |-> n, connectorType |-> type, status |-> "available"]
       IN /\ InScope(a, "charger", Doc("charger", c))
          /\ assertPlugFitsCharger(d)
          /\ Begin(p, "check", "connector", id, NoDoc, d)

updateConnector(p, a, id) == update(p, a, "connector", id, "check")

setConnectorStatus(p, a, id) ==
  /\ id \in Docs("connector") /\ InScope(a, "connector", Doc("connector", id))
  /\ \E status \in Values.connectorStatus : setStatus(p, "connector", id, status)

-----------------------------------------------------------------------------
(* tariff.service.ts *)

createTariff(p, a, id) ==
  /\ id \in Free("tariff")
  /\ \E co \in Companies, price \in Values.price :
       /\ a \in {Platform, co}
       /\ Begin(p, "save", "tariff", id, NoDoc,
                [company |-> co, status |-> "inactive", price |-> price])

updateTariff(p, a, id) == update(p, a, "tariff", id, "save")

\* Deactivating is a check and a save, activating a transaction.
setTariffStatus(p, a, id) ==
  /\ id \in Docs("tariff") /\ InScope(a, "tariff", Doc("tariff", id))
  /\ LET d == Doc("tariff", id)
         to == IF d.status = "active" THEN "inactive" ELSE "active"
     IN Begin(p, IF to = "inactive" THEN "check" ELSE "swap", "tariff", id, d,
              [d EXCEPT !.status = to])

\* The company's active tariff gives way to the new one, in a snapshot
\* transaction: a concurrent swap makes it run again or fail.
OthersOff(id) ==
  [t \in Docs("tariff") |->
     IF /\ Doc("tariff", t).company = Doc("tariff", id).company
        /\ Doc("tariff", t).status = "active"
     THEN [Doc("tariff", t) EXCEPT !.status = "inactive"] ELSE Doc("tariff", t)]

swapTariffs_twoWrites(p) ==
  /\ request[p].step = "swap"
  /\ store' = [store EXCEPT !.tariff = OthersOff(request[p].id)]
  /\ request' = [request EXCEPT ![p].step = "save"]
  /\ UNCHANGED <<requests, hardwareVars>>
swapTariffs(p) ==
  /\ request[p].step = "swap"
  /\ LET id == request[p].id
     IN store' = [store EXCEPT !.tariff = [OthersOff(id) EXCEPT ![id].status = "active"]]
  /\ request' = [request EXCEPT ![p] = Idle]
  /\ UNCHANGED <<requests, hardwareVars>>

-----------------------------------------------------------------------------
(* The checks against other documents, and the save *)

\* No other document has the code, the OCPP id or the number just chosen; a
\* charger that becomes AC has no DC-only plug; another tariff is active.
Clear(kind, id, old, new) ==
  LET chosen == Identities(kind, new) \ (IF old = NoDoc THEN {} ELSE Identities(kind, old))
  IN /\ chosen \cap Taken(kind, id) = {}
     /\ kind = "charger" /\ old # NoDoc /\ new.chargerType = "AC" /\ old.chargerType # "AC" =>
          ~\E c \in Docs("connector") : /\ Doc("connector", c).charger = id
                                        /\ Doc("connector", c).connectorType
                                             \in DC_ONLY_CONNECTOR_TYPES
     /\ kind = "tariff" => \E t \in Docs("tariff") \ {id} :
                             /\ Doc("tariff", t).company = new.company
                             /\ Doc("tariff", t).status = "active"

check(p) ==
  LET r == request[p]
  IN /\ r.step = "check"
     /\ request' = [request EXCEPT ![p] = IF Clear(r.kind, r.id, r.old, r.new)
                                          THEN [@ EXCEPT !.step = "save"] ELSE Idle]
     /\ UNCHANGED <<store, requests, hardwareVars>>

save(p) ==
  LET r == request[p]
      d == IF r.old = NoDoc THEN r.new ELSE Saved(Doc(r.kind, r.id), r.old, r.new)
  IN /\ r.step = "save"
     /\ IF IndexAdmits(r.kind, r.id, d) THEN Put(r.kind, r.id, d) ELSE UNCHANGED store
     /\ request' = [request EXCEPT ![p] = Idle]
     /\ UNCHANGED <<requests, hardwareVars>>

-----------------------------------------------------------------------------
(* What the hardware reports *)

IN_FLIGHT_CONNECTOR_STATUSES == {"preparing", "charging", "finishing"}

\* OCPP's words into the platform's.
STATUS_MAP ==
  [Available |-> "available", Preparing |-> "preparing", Charging |-> "charging",
   Finishing |-> "finishing", Faulted |-> "faulted", Unavailable |-> "unavailable",
   SuspendedEV |-> "occupied", SuspendedEVSE |-> "occupied", Reserved |-> "occupied"]
CHARGE_POINT_STATUS_MAP ==
  [Available |-> "operative", Faulted |-> "faulted", Unavailable |-> "unavailable"]

PlugFault(c) == [charger |-> "none", connector |-> c, step |-> "fail"]
MachineFault(ch) == [charger |-> ch, connector |-> "none", step |-> "fail"]

\* connectorId >= 1.  The status found there before tells a fresh fault from a
\* repeated one.
handleStatusNotification(c, ocppStatus) ==
  /\ c \in Docs("connector")
  /\ reports < MaxReports /\ reports' = reports + 1
  /\ LET mapped == STATUS_MAP[ocppStatus]
     IN /\ Put("connector", c, [Doc("connector", c) EXCEPT !.status = mapped])
        /\ failing' = IF mapped = "faulted" /\ Doc("connector", c).status # "faulted"
                      THEN failing \cup {PlugFault(c)} ELSE failing
  /\ UNCHANGED <<adminVars, starting, open>>

\* connectorId 0.  The filter on the stored status is the transition detector.
handleChargePointStatus(ch, ocppStatus) ==
  /\ ch \in Docs("charger")
  /\ reports < MaxReports /\ reports' = reports + 1
  /\ LET mapped == CHARGE_POINT_STATUS_MAP[ocppStatus]
         d == [Doc("charger", ch) EXCEPT
                 !.hardwareStatus = mapped,
                 !.faultReportedAt = IF mapped = "operative" THEN 0 ELSE reports + 1]
     IN IF Doc("charger", ch).hardwareStatus # mapped
        THEN /\ Put("charger", ch, d)
             /\ failing' = IF mapped = "faulted" THEN failing \cup {MachineFault(ch)}
                           ELSE failing
        ELSE UNCHANGED <<store, failing>>
  /\ UNCHANGED <<adminVars, starting, open>>

\* failOpenSessionsForConnector and failOpenSessionsForCharger: which sessions
\* end.  The latter then releases, in a write of its own, the plugs that are in
\* flight by then.
OnCharger(c, ch) == c \in Docs("connector") /\ Doc("connector", c).charger = ch

Ended_thisPlug(f) == {s \in open : s.connector = f.connector}
Ended(f) ==
  IF f.charger = "none" THEN {s \in open : s.connector = f.connector}
  ELSE {s \in open : OnCharger(s.connector, f.charger)}

failSessions(f) ==
  /\ f \in failing /\ f.step = "fail"
  /\ open' = open \ Ended(f)
  /\ failing' = (failing \ {f}) \cup
                  (IF f.charger = "none" THEN {} ELSE {[f EXCEPT !.step = "release"]})
  /\ UNCHANGED <<store, adminVars, starting, reports>>

releaseConnectors(f) ==
  /\ f \in failing /\ f.step = "release"
  /\ store' = [store EXCEPT !.connector =
                 [c \in DOMAIN @ |-> IF /\ OnCharger(c, f.charger)
                                        /\ @[c].status \in IN_FLIGHT_CONNECTOR_STATUSES
                                     THEN [@[c] EXCEPT !.status = "unavailable"] ELSE @[c]]]
  /\ failing' = failing \ {f}
  /\ UNCHANGED <<adminVars, starting, open, reports>>

-----------------------------------------------------------------------------
(* Sessions, as far as the fleet sees them *)

\* isOnline, the fifth thing it asks, is Gateway's.
assessStartability(c) ==
  /\ Doc("charger", Doc("connector", c).charger).status = "available"
  /\ Doc("charger", Doc("connector", c).charger).hardwareStatus = "operative"
  /\ Doc("connector", c).status \notin {"faulted", "unavailable", "charging", "occupied"}

findActiveTariffForCompany(co) ==
  {t \in Docs("tariff") : Doc("tariff", t).company = co /\ Doc("tariff", t).status = "active"}
Priced(co) == findActiveTariffForCompany(co) # {}

canStart(c) == assessStartability(c) /\ Priced(CompanyOfDoc("connector", Doc("connector", c)))

\* A start looks at the plug first and takes it later, whatever came between;
\* of two that take it the index admits one.
startSession(c) ==
  /\ c \in Docs("connector") \ starting
  /\ canStart(c)
  /\ starting' = starting \cup {c}
  /\ UNCHANGED <<store, adminVars, open, failing, reports>>

createSession(c) ==
  /\ c \in starting
  /\ starting' = starting \ {c}
  /\ open' = IF \E s \in open : s.connector = c THEN open
             ELSE open \cup {[connector |-> c, since |-> reports]}
  /\ UNCHANGED <<store, adminVars, failing, reports>>

endSession(s) ==
  /\ s \in open
  /\ open' = open \ {s}
  /\ UNCHANGED <<store, adminVars, starting, failing, reports>>

-----------------------------------------------------------------------------
Init ==
  /\ store \in Stored
  /\ request = [p \in Slots |-> Idle] /\ requests = 0
  /\ starting = {} /\ open = {} /\ failing = {} /\ reports = 0

AdminStep(p, a) ==
  \/ \E id \in Ids.station : createStation(p, a, id) \/ updateStation(p, a, id)
                             \/ setStationStatus(p, a, id)
  \/ \E id \in Ids.charger : createCharger(p, a, id) \/ updateCharger(p, a, id)
                             \/ setChargerStatus(p, a, id)
  \/ \E id \in Ids.connector : createConnector(p, a, id) \/ updateConnector(p, a, id)
                               \/ setConnectorStatus(p, a, id)
  \/ \E id \in Ids.tariff : createTariff(p, a, id) \/ updateTariff(p, a, id)
                            \/ setTariffStatus(p, a, id)

HardwareStep ==
  \/ \E c \in Ids.connector, s \in Values.report : handleStatusNotification(c, s)
  \/ \E ch \in Ids.charger, s \in DOMAIN CHARGE_POINT_STATUS_MAP : handleChargePointStatus(ch, s)

Next ==
  \/ \E p \in FirstFree, a \in Actors : AdminStep(p, a)
  \/ \E p \in Slots : check(p) \/ save(p) \/ swapTariffs(p)
  \/ HardwareStep
  \/ \E f \in failing : failSessions(f) \/ releaseConnectors(f)
  \/ \E c \in Ids.connector : startSession(c) \/ createSession(c)
  \/ \E s \in open : endSession(s)

Spec == Init /\ [][Next]_vars

\* A fault ends what it must end.  Nobody has to ask, start, report or stop
\* anything.
Fairness == WF_vars(\E f \in failing : failSessions(f) \/ releaseConnectors(f))

FairSpec == Spec /\ Fairness

-----------------------------------------------------------------------------
TypeOK ==
  /\ \A id \in Docs("station") : Doc("station", id) \in Station
  /\ \A id \in Docs("charger") : Doc("charger", id) \in Charger
  /\ \A id \in Docs("connector") : Doc("connector", id) \in Connector
  /\ \A id \in Docs("tariff") : Doc("tariff", id) \in Tariff
  /\ starting \subseteq Docs("connector")
  /\ \A s \in open : s.connector \in Docs("connector") /\ s.since \in 0..reports

\* No two stations of a company share a code, no two chargers an OCPP id or a
\* code at one site, no two plugs a number, and a company never has two active
\* tariffs, however requests overlap between their check and their save.
IdentitiesUnique ==
  \A kind \in Kinds : \A id \in Docs(kind) :
    Identities(kind, Doc(kind, id)) \cap Taken(kind, id) = {}

\* What a machine said about itself is undone by its next report only: no save
\* of an administrator's older copy brings the previous verdict back.
ReportsOutliveSaves ==
  [][\A ch \in Docs("charger") :
       store'.charger[ch].hardwareStatus # Doc("charger", ch).hardwareStatus =>
         reports' > reports]_vars

\* A session that was there when its machine reported itself faulted ends, on
\* whichever plug.  One created a moment later, by a start that had looked before,
\* is left alone.
OverheldBy(c) ==
  \E s \in open : LET ch == Doc("charger", Doc("connector", c).charger)
                  IN /\ s.connector = c
                     /\ ch.hardwareStatus = "faulted" /\ s.since < ch.faultReportedAt
MachineFaultEndsSessions == \A c \in Ids.connector : OverheldBy(c) ~> ~OverheldBy(c)

\* Activating another tariff never leaves a moment without a price, whoever reads
\* between its two writes; only the save of a deactivation can end one.
Deactivates(p) ==
  LET r == request[p]
  IN /\ r.step = "save" /\ request'[p] = Idle /\ r.kind = "tariff" /\ r.old # NoDoc
     /\ r.old.status = "active" /\ r.new.status = "inactive"
ActivationNeverUnprices ==
  [][\A co \in Companies : Priced(co) /\ ~Priced(co)' => \E p \in Slots : Deactivates(p)]_vars

=============================================================================
