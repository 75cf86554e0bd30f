----------------------------- MODULE FleetProofs -----------------------------
(***************************************************************************)
(* Theorems about Fleet and Discovery, for every fleet of documents, every *)
(* set of values administrators try, and every number of requests at once. *)
(*                                                                         *)
(* Argument.  A request works on the copy it read when it began, while     *)
(* others save: the invariant says what that copy still has in common with *)
(* what is stored.  The document is still there (nothing is deleted), or,  *)
(* if it is to be created, still is not and nobody else is creating it;    *)
(* the copy and the original are of one type and agree on the fields that  *)
(* a request never changes, which `Saved` therefore takes from what is     *)
(* stored; and the charger a plug belongs to exists.                       *)
(***************************************************************************)
EXTENDS Discovery, TLAPS

StoreInv ==
  /\ DOMAIN store = Kinds
  /\ \A kind \in Kinds : /\ Docs(kind) \subseteq Ids[kind]
                         /\ \A id \in Docs(kind) : Doc(kind, id) \in Schema[kind]
  /\ \A c \in Docs("connector") : Doc("connector", c).charger \in Docs("charger")

\* What a request leaves alone in a document it changes.
Keeps(kind, old, new) ==
  /\ kind = "charger" => new.hardwareStatus = old.hardwareStatus
  /\ kind = "tariff" => new.company = old.company

\* A request in progress, with the documents `docs` there are.
Sound(docs, r) ==
  /\ r.step \in {"check", "save", "swap"}
  /\ r.kind \in Kinds /\ r.id \in Ids[r.kind] /\ r.new \in Schema[r.kind]
  /\ \/ r.old = NoDoc /\ r.id \notin DOMAIN docs[r.kind]
     \/ /\ r.old \in Schema[r.kind] /\ r.id \in DOMAIN docs[r.kind]
        /\ Keeps(r.kind, r.old, r.new)
  /\ r.step = "swap" => r.kind = "tariff" /\ r.old # NoDoc
  /\ r.kind = "connector" => r.new.charger \in DOMAIN docs.charger

Apart(r, q) ==
  (r # Idle /\ q # Idle /\ r.old = NoDoc /\ q.old = NoDoc /\ r.kind = q.kind) => r.id # q.id

RequestInv ==
  /\ DOMAIN request = Slots
  /\ \A p \in Slots : request[p] = Idle \/ Sound(store, request[p])
  /\ \A p, q \in Slots : p # q => Apart(request[p], request[q])

HardwareInv ==
  /\ reports \in Nat
  /\ starting \subseteq Docs("connector")
  /\ \A s \in open : s.connector \in Docs("connector") /\ s.since \in 0..reports

UniqueInv == \A kind \in Kinds : Distinct(kind, store[kind])

IInv == StoreInv /\ RequestInv /\ HardwareInv /\ UniqueInv

-----------------------------------------------------------------------------
(* The documents *)

LEMMA SchemaOf ==
  /\ Schema["station"] = Station /\ Schema["charger"] = Charger
  /\ Schema["connector"] = Connector /\ Schema["tariff"] = Tariff
BY DEF Schema

\* No document is mistaken for the absence of one.
LEMMA NoDocIsNone ==
  ASSUME NEW kind \in Kinds, NEW d \in Schema[kind]
  PROVE  d # NoDoc
<1>1. DOMAIN NoDoc = {"none"}
  BY DEF NoDoc
<1>2. CASE kind = "station"
  <2>1. "company" \in DOMAIN d
    BY <1>2, SchemaOf DEF Station
  <2>. QED BY <1>1, <2>1
<1>3. CASE kind = "charger"
  <2>1. "company" \in DOMAIN d
    BY <1>3, SchemaOf DEF Charger
  <2>. QED BY <1>1, <2>1
<1>4. CASE kind = "connector"
  <2>1. "charger" \in DOMAIN d
    BY <1>4, SchemaOf DEF Connector
  <2>. QED BY <1>1, <2>1
<1>5. CASE kind = "tariff"
  <2>1. "company" \in DOMAIN d
    BY <1>5, SchemaOf DEF Tariff
  <2>. QED BY <1>1, <2>1
<1>. QED BY <1>2, <1>3, <1>4, <1>5 DEF Kinds

\* What is saved is a document, and has what the request left alone as it is stored.
LEMMA SavedTyped ==
  ASSUME NEW kind \in Kinds, NEW stored \in Schema[kind],
         NEW old \in Schema[kind], NEW new \in Schema[kind]
  PROVE  /\ Saved(stored, old, new) \in Schema[kind]
         /\ kind = "charger" /\ new.hardwareStatus = old.hardwareStatus
              => Saved(stored, old, new).hardwareStatus = stored.hardwareStatus
         /\ kind = "connector"
              => Saved(stored, old, new).charger \in {stored.charger, new.charger}
         /\ kind = "tariff" /\ new.company = old.company
              => Saved(stored, old, new).company = stored.company
         /\ kind = "tariff"
              => Saved(stored, old, new).status
                   = IF new.status = old.status THEN stored.status ELSE new.status
<1>. DEFINE d == Saved(stored, old, new)
<1>1. CASE kind = "station"
  <2>. USE <1>1, SchemaOf
  <2>1. d = [company |-> d.company, code |-> d.code, status |-> d.status,
             latitude |-> d.latitude, longitude |-> d.longitude, location |-> d.location]
    BY DEF Saved, Station
  <2>2. d.company \in Companies /\ d.code \in STRING /\ d.status \in STATION_STATUSES
    BY DEF Saved, Station
  <2>3. d.latitude \in Nat /\ d.longitude \in Nat /\ d.location \in Nat \X Nat
    BY DEF Saved, Station
  <2>. HIDE DEF d
  <2>4. d \in Station
    BY <2>1, <2>2, <2>3 DEF Station
  <2>. QED BY <2>4 DEF d
<1>2. CASE kind = "charger"
  <2>. USE <1>2, SchemaOf
  <2>1. d = [station |-> d.station, company |-> d.company, code |-> d.code,
             ocppId |-> d.ocppId, chargerType |-> d.chargerType, status |-> d.status,
             hardwareStatus |-> d.hardwareStatus, faultReportedAt |-> d.faultReportedAt]
    BY DEF Saved, Charger
  <2>2. d.station \in Ids.station /\ d.company \in Companies /\ d.code \in STRING
        /\ d.ocppId \in STRING
    BY DEF Saved, Charger
  <2>3. d.chargerType \in CHARGER_TYPES /\ d.status \in CHARGER_STATUSES
        /\ d.hardwareStatus \in CHARGER_HARDWARE_STATUSES /\ d.faultReportedAt \in Nat
    BY DEF Saved, Charger
  <2>4. new.hardwareStatus = old.hardwareStatus => d.hardwareStatus = stored.hardwareStatus
    BY DEF Saved, Charger
  <2>. HIDE DEF d
  <2>5. d \in Charger
    BY <2>1, <2>2, <2>3 DEF Charger
  <2>. QED BY <2>4, <2>5 DEF d
<1>3. CASE kind = "connector"
  <2>. USE <1>3, SchemaOf
  <2>1. d = [charger |-> d.charger, number |-> d.number, connectorType |-> d.connectorType,
             status |-> d.status]
    BY DEF Saved, Connector
  <2>2. d.charger \in Ids.charger /\ d.number \in 1..8 /\ d.connectorType \in CONNECTOR_TYPES
        /\ d.status \in CONNECTOR_STATUSES
    BY DEF Saved, Connector
  <2>3. d.charger \in {stored.charger, new.charger}
    BY DEF Saved, Connector
  <2>. HIDE DEF d
  <2>4. d \in Connector
    BY <2>1, <2>2 DEF Connector
  <2>. QED BY <2>3, <2>4 DEF d
<1>4. CASE kind = "tariff"
  <2>. USE <1>4, SchemaOf
  <2>1. d = [company |-> d.company, status |-> d.status, price |-> d.price]
    BY DEF Saved, Tariff
  <2>2. d.company \in Companies /\ d.status \in TARIFF_STATUSES /\ d.price \in Nat
    BY DEF Saved, Tariff
  <2>3. new.company = old.company => d.company = stored.company
    BY DEF Saved, Tariff
  <2>4. d.status = IF new.status = old.status THEN stored.status ELSE new.status
    BY DEF Saved, Tariff
  <2>. HIDE DEF d
  <2>5. d \in Tariff
    BY <2>1, <2>2 DEF Tariff
  <2>. QED BY <2>3, <2>4, <2>5 DEF d
<1>. QED BY <1>1, <1>2, <1>3, <1>4 DEF Kinds

\* What `Put` leaves where it was.
LEMMA PutMeans ==
  ASSUME DOMAIN store = Kinds, NEW kind \in Kinds, NEW id, NEW d, Put(kind, id, d)
  PROVE  /\ DOMAIN store' = Kinds
         /\ \A k \in Kinds : k # kind => store'[k] = store[k]
         /\ DOMAIN store'[kind] = Docs(kind) \cup {id}
         /\ store'[kind][id] = d
         /\ \A o \in Docs(kind) : o # id => store'[kind][o] = Doc(kind, o)
BY DEF Put, Docs, Doc

LEMMA PutKeepsStore ==
  ASSUME StoreInv, NEW kind \in Kinds, NEW id \in Ids[kind], NEW d \in Schema[kind],
         kind = "connector" => d.charger \in Docs("charger"),
         Put(kind, id, d)
  PROVE  StoreInv'
<1>1. /\ DOMAIN store' = Kinds
      /\ \A k \in Kinds : k # kind => store'[k] = store[k]
      /\ DOMAIN store'[kind] = Docs(kind) \cup {id}
      /\ store'[kind][id] = d
      /\ \A o \in Docs(kind) : o # id => store'[kind][o] = Doc(kind, o)
  BY PutMeans DEF StoreInv
<1>2. \A k \in Kinds : /\ DOMAIN store'[k] \subseteq Ids[k]
                       /\ \A o \in DOMAIN store'[k] : store'[k][o] \in Schema[k]
  BY <1>1 DEF StoreInv, Docs, Doc
<1>3. \A c \in DOMAIN store'["connector"] :
        store'["connector"][c].charger \in DOMAIN store'["charger"]
  BY <1>1 DEF StoreInv, Docs, Doc, Kinds
<1>. QED BY <1>1, <1>2, <1>3 DEF StoreInv, Docs, Doc

\* A document that shares nothing with the others may join them.
LEMMA PutKeepsUnique ==
  ASSUME DOMAIN store = Kinds, UniqueInv, NEW kind \in Kinds, NEW id, NEW d,
         IndexAdmits(kind, id, d), Put(kind, id, d)
  PROVE  UniqueInv'
<1>1. /\ DOMAIN store' = Kinds
      /\ \A k \in Kinds : k # kind => store'[k] = store[k]
      /\ DOMAIN store'[kind] = Docs(kind) \cup {id}
      /\ store'[kind][id] = d
      /\ \A o \in Docs(kind) : o # id => store'[kind][o] = Doc(kind, o)
  BY PutMeans
<1>2. \A o \in Docs(kind) : o # id => Identities(kind, d) \cap Identities(kind, Doc(kind, o)) = {}
  BY DEF IndexAdmits, Taken
<1>3. Distinct(kind, store'[kind])
  <2>. SUFFICES ASSUME NEW i \in DOMAIN store'[kind], NEW j \in DOMAIN store'[kind], i # j
                PROVE  Identities(kind, store'[kind][i]) \cap Identities(kind, store'[kind][j]) = {}
    BY DEF Distinct
  <2>1. CASE i = id
    BY <1>1, <1>2, <2>1
  <2>2. CASE j = id
    BY <1>1, <1>2, <2>2
  <2>3. CASE i # id /\ j # id
    BY <1>1, <2>3 DEF UniqueInv, Distinct, Docs, Doc
  <2>. QED BY <2>1, <2>2, <2>3
<1>4. ASSUME NEW k \in Kinds PROVE Distinct(k, store'[k])
  BY <1>1, <1>3 DEF UniqueInv
<1>. QED BY <1>4 DEF UniqueInv

\* A document the hardware touches shares what it shared.
LEMMA SameIdentities ==
  ASSUME DOMAIN store = Kinds, UniqueInv, NEW kind \in Kinds, NEW id \in Docs(kind), NEW d,
         Identities(kind, d) \subseteq Identities(kind, Doc(kind, id))
  PROVE  IndexAdmits(kind, id, d)
BY DEF IndexAdmits, Taken, UniqueInv, Distinct, Docs, Doc

LEMMA UniqueMeans == UniqueInv <=> IdentitiesUnique
BY DEF UniqueInv, IdentitiesUnique, Distinct, Taken, Docs, Doc

-----------------------------------------------------------------------------
(* Requests *)

\* A new request, sound with the documents there are.
Opens(p) ==
  \E r : /\ Sound(store, r)
         /\ r.old = NoDoc => \A q \in Slots : request[q].id # r.id
         /\ request' = [request EXCEPT ![p] = r]
         /\ UNCHANGED <<store, hardwareVars>>

LEMMA BeginsSound ==
  ASSUME StoreInv, NEW p \in Slots, NEW step \in {"check", "save", "swap"}, NEW kind \in Kinds,
         NEW id \in Ids[kind], NEW old, NEW new \in Schema[kind],
         \/ old = NoDoc /\ id \in Free(kind)
         \/ old \in Schema[kind] /\ id \in Docs(kind) /\ Keeps(kind, old, new),
         step = "swap" => kind = "tariff" /\ old # NoDoc,
         kind = "connector" => new.charger \in Docs("charger"),
         Begin(p, step, kind, id, old, new)
  PROVE  Opens(p)
<1>. DEFINE r == [step |-> step, kind |-> kind, id |-> id, old |-> old, new |-> new]
<1>1. r.step = step /\ r.kind = kind /\ r.id = id /\ r.old = old /\ r.new = new
  OBVIOUS
<1>2. request' = [request EXCEPT ![p] = r] /\ UNCHANGED <<store, hardwareVars>>
  BY DEF Begin
<1>3. old = NoDoc => id \in Free(kind)
  BY NoDocIsNone
<1>. HIDE DEF r
<1>4. Sound(store, r)
  BY <1>1 DEF Sound, Docs, Free
<1>5. r.old = NoDoc => \A q \in Slots : request[q].id # r.id
  BY <1>1, <1>3 DEF Free
<1>. QED BY <1>2, <1>4, <1>5 DEF Opens

\* A PATCH of one field gives a document of the same kind.
LEMMA EditTyped ==
  ASSUME StoreInv, NEW kind \in Kinds, NEW id \in Docs(kind), NEW f \in Editable(kind),
         NEW v \in Values[f]
  PROVE  LET d == [Doc(kind, id) EXCEPT ![f] = v]
         IN /\ d \in Schema[kind]
            /\ Keeps(kind, Doc(kind, id), d)
            /\ kind = "connector" => d.charger \in Docs("charger")
<1>. DEFINE old == Doc(kind, id)
            d == [old EXCEPT ![f] = v]
<1>1. old \in Schema[kind] /\ (kind = "connector" => old.charger \in Docs("charger"))
  BY DEF StoreInv
<1>2. SUFFICES d \in Schema[kind] /\ Keeps(kind, old, d)
               /\ (kind = "connector" => d.charger \in Docs("charger"))
  OBVIOUS
<1>. HIDE DEF old
<1>3. CASE kind = "station"
  <2>1. old \in Station /\ f \in {"code", "latitude", "longitude"}
    BY <1>1, <1>3, SchemaOf DEF Editable
  <2>2. CASE f = "code"
    BY <1>3, <2>1, <2>2, InputsAssumption, SchemaOf DEF Station, Keeps
  <2>3. CASE f = "latitude"
    BY <1>3, <2>1, <2>3, InputsAssumption, SchemaOf DEF Station, Keeps
  <2>4. CASE f = "longitude"
    BY <1>3, <2>1, <2>4, InputsAssumption, SchemaOf DEF Station, Keeps
  <2>. QED BY <2>1, <2>2, <2>3, <2>4
<1>4. CASE kind = "charger"
  <2>1. old \in Charger /\ f \in {"code", "ocppId", "chargerType"}
    BY <1>1, <1>4, SchemaOf DEF Editable
  <2>2. CASE f = "code"
    BY <1>4, <2>1, <2>2, InputsAssumption, SchemaOf DEF Charger, Keeps
  <2>3. CASE f = "ocppId"
    BY <1>4, <2>1, <2>3, InputsAssumption, SchemaOf DEF Charger, Keeps
  <2>4. CASE f = "chargerType"
    BY <1>4, <2>1, <2>4, InputsAssumption, SchemaOf DEF Charger, Keeps
  <2>. QED BY <2>1, <2>2, <2>3, <2>4
<1>5. CASE kind = "connector"
  <2>1. old \in Connector /\ f \in {"number", "connectorType"}
    BY <1>1, <1>5, SchemaOf DEF Editable
  <2>2. CASE f = "number"
    BY <1>1, <1>5, <2>1, <2>2, InputsAssumption, SchemaOf DEF Connector, Keeps
  <2>3. CASE f = "connectorType"
    BY <1>1, <1>5, <2>1, <2>3, InputsAssumption, SchemaOf DEF Connector, Keeps
  <2>. QED BY <2>1, <2>2, <2>3
<1>6. CASE kind = "tariff"
  <2>1. old \in Tariff /\ f = "price"
    BY <1>1, <1>6, SchemaOf DEF Editable
  <2>. QED BY <1>6, <2>1, InputsAssumption, SchemaOf DEF Tariff, Keeps
<1>. QED BY <1>3, <1>4, <1>5, <1>6 DEF Kinds

LEMMA UpdateOpens ==
  ASSUME StoreInv, NEW p \in Slots, NEW a, NEW kind \in Kinds, NEW id \in Ids[kind],
         NEW step \in {"check", "save"}, update(p, a, kind, id, step)
  PROVE  Opens(p)
<1>1. id \in Docs(kind)
  BY DEF update
<1>. DEFINE old == Doc(kind, id)
<1>2. PICK f \in Editable(kind) : \E v \in Values[f] :
        Begin(p, step, kind, id, old,
              IF kind = "station" THEN syncLocation([old EXCEPT ![f] = v])
              ELSE [old EXCEPT ![f] = v])
  BY DEF update
<1>8. PICK v \in Values[f] :
        Begin(p, step, kind, id, old,
              IF kind = "station" THEN syncLocation([old EXCEPT ![f] = v])
              ELSE [old EXCEPT ![f] = v])
  BY <1>2
<1>. DEFINE d == [old EXCEPT ![f] = v]
<1>3. /\ d \in Schema[kind] /\ Keeps(kind, old, d)
      /\ kind = "connector" => d.charger \in Docs("charger")
  BY <1>1, EditTyped
<1>4. old \in Schema[kind]
  BY <1>1 DEF StoreInv
<1>5. Begin(p, step, kind, id, old, IF kind = "station" THEN syncLocation(d) ELSE d)
  BY <1>8
<1>. HIDE DEF d, old
<1>6. CASE kind = "station"
  <2>1. syncLocation(d) \in Schema[kind]
    BY <1>3, <1>6, SchemaOf DEF syncLocation, Station
  <2>2. Keeps(kind, old, syncLocation(d))
    BY <1>6 DEF Keeps
  <2>3. Begin(p, step, kind, id, old, syncLocation(d))
    BY <1>5, <1>6
  <2>. QED BY <1>1, <1>4, <1>6, <2>1, <2>2, <2>3, BeginsSound
<1>7. CASE kind # "station"
  <2>1. Begin(p, step, kind, id, old, d)
    BY <1>5, <1>7
  <2>. QED BY <1>1, <1>3, <1>4, <2>1, BeginsSound
<1>. QED BY <1>6, <1>7

LEMMA SetStatusOpens ==
  ASSUME StoreInv, NEW p \in Slots, NEW kind \in Kinds, NEW id \in Docs(kind), NEW status,
         [Doc(kind, id) EXCEPT !.status = status] \in Schema[kind],
         setStatus(p, kind, id, status)
  PROVE  Opens(p)
<1>. DEFINE old == Doc(kind, id)
            new == [old EXCEPT !.status = status]
<1>1. old \in Schema[kind] /\ id \in Ids[kind]
      /\ (kind = "connector" => old.charger \in Docs("charger"))
  BY DEF StoreInv
<1>2. new.hardwareStatus = old.hardwareStatus /\ new.company = old.company
      /\ new.charger = old.charger
  OBVIOUS
<1>3. Begin(p, "save", kind, id, old, new) /\ new \in Schema[kind]
  BY DEF setStatus
<1>. HIDE DEF new, old
<1>4. Keeps(kind, old, new)
  BY <1>2 DEF Keeps
<1>. QED BY <1>1, <1>2, <1>3, <1>4, BeginsSound

LEMMA CreatesOpen ==
  ASSUME StoreInv, NEW p \in Slots, NEW kind \in Kinds, NEW step \in {"check", "save"},
         NEW id \in Free(kind), NEW new \in Schema[kind],
         kind = "connector" => new.charger \in Docs("charger"),
         Begin(p, step, kind, id, NoDoc, new)
  PROVE  Opens(p)
BY BeginsSound DEF Free

LEMMA StationSteps ==
  ASSUME StoreInv, NEW p \in Slots, NEW a \in Actors, NEW id \in Ids.station,
         createStation(p, a, id) \/ updateStation(p, a, id) \/ setStationStatus(p, a, id)
  PROVE  Opens(p)
<1>. USE SchemaOf
<1>0. "station" \in Kinds
  BY DEF Kinds
<1>1. CASE createStation(p, a, id)
  <2>1. PICK co \in Companies, code \in Values.code :
          Begin(p, "check", "station", id, NoDoc,
                [company |-> co, code |-> code, status |-> "active",
                 latitude |-> 0, longitude |-> 0, location |-> <<0, 0>>])
    BY <1>1 DEF createStation
  <2>2. [company |-> co, code |-> code, status |-> "active",
         latitude |-> 0, longitude |-> 0, location |-> <<0, 0>>] \in Station
    BY InputsAssumption DEF Station, STATION_STATUSES
  <2>3. id \in Free("station")
    BY <1>1 DEF createStation
  <2>. QED BY <1>0, <2>1, <2>2, <2>3, CreatesOpen
<1>2. CASE updateStation(p, a, id)
  BY <1>0, <1>2, UpdateOpens DEF updateStation
<1>3. CASE setStationStatus(p, a, id)
  <2>1. PICK status \in STATION_STATUSES : setStatus(p, "station", id, status)
    BY <1>3 DEF setStationStatus
  <2>2. id \in Docs("station") /\ Doc("station", id) \in Station
    BY <1>0, <1>3 DEF setStationStatus, StoreInv
  <2>3. [Doc("station", id) EXCEPT !.status = status] \in Station
    BY <2>2 DEF Station
  <2>. QED BY <1>0, <2>1, <2>2, <2>3, SetStatusOpens
<1>. QED BY <1>1, <1>2, <1>3

LEMMA ChargerSteps ==
  ASSUME StoreInv, NEW p \in Slots, NEW a \in Actors, NEW id \in Ids.charger,
         createCharger(p, a, id) \/ updateCharger(p, a, id) \/ setChargerStatus(p, a, id)
  PROVE  Opens(p)
<1>. USE SchemaOf
<1>0. "charger" \in Kinds /\ "station" \in Kinds
  BY DEF Kinds
<1>1. CASE createCharger(p, a, id)
  <2>1. PICK s \in Docs("station"), code \in Values.code, ocppId \in Values.ocppId,
             type \in Values.chargerType :
          Begin(p, "check", "charger", id, NoDoc,
                [station |-> s, company |-> Doc("station", s).company, code |-> code,
                 ocppId |-> ocppId, chargerType |-> type, status |-> "available",
                 hardwareStatus |-> "operative", faultReportedAt |-> 0])
    BY <1>1 DEF createCharger
  <2>2. Doc("station", s) \in Station /\ s \in Ids["station"]
    BY <1>0 DEF StoreInv
  <2>3. [station |-> s, company |-> Doc("station", s).company, code |-> code,
         ocppId |-> ocppId, chargerType |-> type, status |-> "available",
         hardwareStatus |-> "operative", faultReportedAt |-> 0] \in Charger
    BY <2>2, InputsAssumption DEF Station, Charger, CHARGER_STATUSES, CHARGER_HARDWARE_STATUSES
  <2>4. id \in Free("charger")
    BY <1>1 DEF createCharger
  <2>. QED BY <1>0, <2>1, <2>3, <2>4, CreatesOpen
<1>2. CASE updateCharger(p, a, id)
  BY <1>0, <1>2, UpdateOpens DEF updateCharger
<1>3. CASE setChargerStatus(p, a, id)
  <2>1. PICK status \in Values.chargerStatus : setStatus(p, "charger", id, status)
    BY <1>3 DEF setChargerStatus
  <2>2. id \in Docs("charger") /\ Doc("charger", id) \in Charger
    BY <1>0, <1>3 DEF setChargerStatus, StoreInv
  <2>3. [Doc("charger", id) EXCEPT !.status = status] \in Charger
    BY <2>2, InputsAssumption DEF Charger
  <2>. QED BY <1>0, <2>1, <2>2, <2>3, SetStatusOpens
<1>. QED BY <1>1, <1>2, <1>3

LEMMA ConnectorSteps ==
  ASSUME StoreInv, NEW p \in Slots, NEW a \in Actors, NEW id \in Ids.connector,
         createConnector(p, a, id) \/ updateConnector(p, a, id) \/ setConnectorStatus(p, a, id)
  PROVE  Opens(p)
<1>. USE SchemaOf
<1>0. "connector" \in Kinds /\ "charger" \in Kinds
  BY DEF Kinds
<1>1. CASE createConnector(p, a, id)
  <2>1. PICK c \in Docs("charger"), n \in Values.number, type \in Values.connectorType :
          Begin(p, "check", "connector", id, NoDoc,
                [charger |-> c, number |-> n, connectorType |-> type, status |-> "available"])
    BY <1>1 DEF createConnector
  <2>2. c \in Ids["charger"]
    BY <1>0 DEF StoreInv
  <2>. DEFINE d == [charger |-> c, number |-> n, connectorType |-> type,
                    status |-> "available"]
  <2>3. d \in Connector /\ d.charger = c
    BY <2>2, InputsAssumption DEF Connector, CONNECTOR_STATUSES
  <2>4. id \in Free("connector")
    BY <1>1 DEF createConnector
  <2>5. Begin(p, "check", "connector", id, NoDoc, d)
    BY <2>1
  <2>. HIDE DEF d
  <2>. QED BY <1>0, <2>3, <2>4, <2>5, CreatesOpen
<1>2. CASE updateConnector(p, a, id)
  BY <1>0, <1>2, UpdateOpens DEF updateConnector
<1>3. CASE setConnectorStatus(p, a, id)
  <2>1. PICK status \in Values.connectorStatus : setStatus(p, "connector", id, status)
    BY <1>3 DEF setConnectorStatus
  <2>2. id \in Docs("connector") /\ Doc("connector", id) \in Connector
    BY <1>0, <1>3 DEF setConnectorStatus, StoreInv
  <2>3. [Doc("connector", id) EXCEPT !.status = status] \in Connector
    BY <2>2, InputsAssumption DEF Connector
  <2>. QED BY <1>0, <2>1, <2>2, <2>3, SetStatusOpens
<1>. QED BY <1>1, <1>2, <1>3

LEMMA TariffSteps ==
  ASSUME StoreInv, NEW p \in Slots, NEW a \in Actors, NEW id \in Ids.tariff,
         createTariff(p, a, id) \/ updateTariff(p, a, id) \/ setTariffStatus(p, a, id)
  PROVE  Opens(p)
<1>. USE SchemaOf
<1>0. "tariff" \in Kinds
  BY DEF Kinds
<1>1. CASE createTariff(p, a, id)
  <2>1. PICK co \in Companies, price \in Values.price :
          Begin(p, "save", "tariff", id, NoDoc,
                [company |-> co, status |-> "inactive", price |-> price])
    BY <1>1 DEF createTariff
  <2>2. [company |-> co, status |-> "inactive", price |-> price] \in Tariff
    BY InputsAssumption DEF Tariff, TARIFF_STATUSES
  <2>3. id \in Free("tariff")
    BY <1>1 DEF createTariff
  <2>. QED BY <1>0, <2>1, <2>2, <2>3, CreatesOpen
<1>2. CASE updateTariff(p, a, id)
  BY <1>0, <1>2, UpdateOpens DEF updateTariff
<1>3. CASE setTariffStatus(p, a, id)
  <2>. DEFINE d == Doc("tariff", id)
              to == IF d.status = "active" THEN "inactive" ELSE "active"
              new == [d EXCEPT !.status = to]
              step == IF to = "inactive" THEN "check" ELSE "swap"
  <2>1. Begin(p, step, "tariff", id, d, new)
    BY <1>3 DEF setTariffStatus
  <2>2. id \in Docs("tariff") /\ d \in Tariff
    BY <1>0, <1>3 DEF setTariffStatus, StoreInv
  <2>3. new \in Tariff /\ new.company = d.company
    BY <2>2 DEF Tariff, TARIFF_STATUSES
  <2>4. d # NoDoc
    BY <1>0, <2>2, NoDocIsNone
  <2>. HIDE DEF new, d
  <2>5. Keeps("tariff", d, new)
    BY <2>3 DEF Keeps
  <2>6. step \in {"check", "save", "swap"}
    OBVIOUS
  <2>. HIDE DEF step
  <2>. QED BY <1>0, <2>1, <2>2, <2>3, <2>4, <2>5, <2>6, BeginsSound
<1>. QED BY <1>1, <1>2, <1>3

LEMMA AdminOpens ==
  ASSUME StoreInv, NEW p \in Slots, NEW a \in Actors, AdminStep(p, a)
  PROVE  Opens(p)
BY StationSteps, ChargerSteps, ConnectorSteps, TariffSteps DEF AdminStep

-----------------------------------------------------------------------------
(* The invariant is inductive *)

LEMMA InitInv == Init => IInv
<1>. SUFFICES ASSUME Init PROVE IInv
  OBVIOUS
<1>1. StoreInv /\ UniqueInv
  BY StoredAssumption DEF Init, StoreInv, UniqueInv, Docs, Doc, Kinds
<1>2. RequestInv
  BY DEF Init, RequestInv, Apart
<1>3. HardwareInv
  BY DEF Init, HardwareInv
<1>. QED BY <1>1, <1>2, <1>3 DEF IInv

LEMMA OpeningKeeps ==
  ASSUME IInv, NEW p \in Slots, Opens(p)
  PROVE  IInv'
<1>1. PICK r : /\ Sound(store, r)
               /\ r.old = NoDoc => \A q \in Slots : request[q].id # r.id
               /\ request' = [request EXCEPT ![p] = r]
               /\ UNCHANGED <<store, hardwareVars>>
  BY DEF Opens
<1>2. StoreInv' /\ UniqueInv' /\ HardwareInv'
  BY <1>1 DEF IInv, StoreInv, UniqueInv, HardwareInv, hardwareVars, Docs, Doc
<1>3. RequestInv'
  <2>1. DOMAIN request' = Slots
    BY <1>1 DEF IInv, RequestInv
  <2>2. ASSUME NEW q \in Slots PROVE request'[q] = Idle \/ Sound(store', request'[q])
    BY <1>1 DEF IInv, RequestInv
  <2>3. ASSUME NEW q \in Slots, NEW o \in Slots, q # o
        PROVE  Apart(request'[q], request'[o])
    BY <1>1, <2>3 DEF IInv, RequestInv, Apart
  <2>. QED BY <2>1, <2>2, <2>3 DEF RequestInv
<1>. QED BY <1>2, <1>3 DEF IInv

LEMMA CheckKeeps ==
  ASSUME IInv, NEW p \in Slots, check(p)
  PROVE  IInv'
<1>. DEFINE r == request[p]
<1>1. UNCHANGED <<store, requests, hardwareVars>>
  BY DEF check
<1>2. r # Idle /\ Sound(store, r) /\ r.step = "check"
  BY DEF check, IInv, RequestInv, Idle
<1>3. request' = [request EXCEPT ![p] = [r EXCEPT !.step = "save"]]
      \/ request' = [request EXCEPT ![p] = Idle]
  BY DEF check
<1>4. StoreInv' /\ UniqueInv' /\ HardwareInv'
  BY <1>1 DEF IInv, StoreInv, UniqueInv, HardwareInv, hardwareVars, Docs, Doc
<1>5. RequestInv'
  <2>. DEFINE n == [r EXCEPT !.step = "save"]
  <2>0. RequestInv
    BY DEF IInv
  <2>1. CASE request' = [request EXCEPT ![p] = n]
    <3>1. n.kind = r.kind /\ n.id = r.id /\ n.old = r.old /\ n.new = r.new
      OBVIOUS
    <3>2. "step" \in DOMAIN r => n.step = "save"
      OBVIOUS
    <3>3. Sound(store, n)
      <4>1. n.step \in {"check", "save"}
        BY <1>2, <3>2
      <4>. HIDE DEF n, r
      <4>. QED BY <1>2, <3>1, <4>1 DEF Sound
    <3>. HIDE DEF n
    <3>4. DOMAIN request' = Slots
      BY <2>0, <2>1 DEF RequestInv
    <3>5. ASSUME NEW q \in Slots PROVE request'[q] = Idle \/ Sound(store', request'[q])
      BY <1>1, <2>0, <2>1, <3>3 DEF RequestInv
    <3>6. ASSUME NEW q \in Slots, NEW o \in Slots, q # o
          PROVE  Apart(request'[q], request'[o])
      <4>1. Apart(request[q], request[o])
        BY <2>0, <3>6 DEF RequestInv
      <4>2. CASE q = p
        BY <1>2, <2>0, <2>1, <3>1, <3>6, <4>1, <4>2 DEF Apart, RequestInv
      <4>3. CASE o = p
        BY <1>2, <2>0, <2>1, <3>1, <3>6, <4>1, <4>3 DEF Apart, RequestInv
      <4>4. CASE q # p /\ o # p
        BY <2>0, <2>1, <4>1, <4>4 DEF RequestInv
      <4>. QED BY <4>2, <4>3, <4>4
    <3>. QED BY <3>4, <3>5, <3>6 DEF RequestInv
  <2>2. CASE request' = [request EXCEPT ![p] = Idle]
    <3>1. DOMAIN request' = Slots
      BY <2>0, <2>2 DEF RequestInv
    <3>2. ASSUME NEW q \in Slots PROVE request'[q] = Idle \/ Sound(store', request'[q])
      BY <1>1, <2>0, <2>2 DEF RequestInv
    <3>3. ASSUME NEW q \in Slots, NEW o \in Slots, q # o
          PROVE  Apart(request'[q], request'[o])
      BY <2>0, <2>2, <3>3 DEF Apart, RequestInv
    <3>. QED BY <3>1, <3>2, <3>3 DEF RequestInv
  <2>. QED BY <1>3, <2>1, <2>2
<1>. QED BY <1>4, <1>5 DEF IInv

\* When the slot of a request is cleared, the others stay sound, if only that request's
\* document can have come to be meanwhile.
LEMMA ClearingKeepsRequests ==
  ASSUME RequestInv, DOMAIN store = Kinds, NEW p \in Slots, request[p] # Idle,
         request' = [request EXCEPT ![p] = Idle],
         \/ \A k \in Kinds : DOMAIN store'[k] = Docs(k)
         \/ /\ request[p].old = NoDoc
            /\ \A k \in Kinds : DOMAIN store'[k] = IF k = request[p].kind
                                                  THEN Docs(k) \cup {request[p].id}
                                                  ELSE Docs(k)
  PROVE  RequestInv'
<1>1. DOMAIN request' = Slots
  BY DEF RequestInv
<1>2. ASSUME NEW q \in Slots PROVE request'[q] = Idle \/ Sound(store', request'[q])
  <2>1. CASE q = p \/ request[q] = Idle
    BY <2>1 DEF RequestInv
  <2>2. CASE q # p /\ request[q] # Idle
    <3>1. request'[q] = request[q] /\ Sound(store, request[q]) /\ Apart(request[q], request[p])
      BY <2>2 DEF RequestInv
    <3>2. CASE \A k \in Kinds : DOMAIN store'[k] = Docs(k)
      BY <3>1, <3>2 DEF Sound, Docs, Kinds
    <3>3. CASE /\ request[p].old = NoDoc
               /\ \A k \in Kinds : DOMAIN store'[k] = IF k = request[p].kind
                                                     THEN Docs(k) \cup {request[p].id}
                                                     ELSE Docs(k)
      <4>1. \A k \in Kinds : Docs(k) \subseteq DOMAIN store'[k]
        BY <3>3
      <4>2. request[q].old = NoDoc /\ request[q].id \notin Docs(request[q].kind)
              => request[q].id \notin DOMAIN store'[request[q].kind]
        BY <2>2, <3>1, <3>3 DEF Apart, Sound
      <4>. QED BY <3>1, <4>1, <4>2 DEF Sound, Docs, Kinds
    <3>. QED BY <3>2, <3>3
  <2>. QED BY <2>1, <2>2
<1>3. ASSUME NEW q \in Slots, NEW o \in Slots, q # o
      PROVE  Apart(request'[q], request'[o])
  BY <1>3 DEF Apart, RequestInv
<1>. QED BY <1>1, <1>2, <1>3 DEF RequestInv

\* What a save puts into the store, or tries to.
SavedDoc(r) == IF r.old = NoDoc THEN r.new ELSE Saved(Doc(r.kind, r.id), r.old, r.new)

LEMMA SavedDocTyped ==
  ASSUME StoreInv, NEW r, Sound(store, r)
  PROVE  /\ SavedDoc(r) \in Schema[r.kind]
         /\ r.kind = "connector" => SavedDoc(r).charger \in Docs("charger")
         /\ r.kind = "charger" /\ r.id \in Docs("charger")
              => SavedDoc(r).hardwareStatus = Doc("charger", r.id).hardwareStatus
         /\ r.kind = "tariff" /\ r.id \in Docs("tariff")
              => /\ r.old \in Tariff
                 /\ SavedDoc(r).company = Doc("tariff", r.id).company
                 /\ SavedDoc(r).status = IF r.new.status = r.old.status
                                         THEN Doc("tariff", r.id).status ELSE r.new.status
<1>0. r.kind \in Kinds /\ r.new \in Schema[r.kind]
  BY DEF Sound
<1>1. CASE r.old = NoDoc
  <2>1. SavedDoc(r) = r.new /\ r.id \notin Docs(r.kind)
    BY <1>0, <1>1, NoDocIsNone DEF SavedDoc, Sound, Docs
  <2>. QED BY <1>0, <2>1 DEF Sound, Docs
<1>2. CASE r.old # NoDoc
  <2>1. /\ r.old \in Schema[r.kind] /\ r.id \in Docs(r.kind) /\ Keeps(r.kind, r.old, r.new)
        /\ r.kind = "connector" => r.new.charger \in Docs("charger")
    BY <1>2 DEF Sound, Docs
  <2>2. Doc(r.kind, r.id) \in Schema[r.kind]
    BY <1>0, <2>1 DEF StoreInv
  <2>3. SavedDoc(r) = Saved(Doc(r.kind, r.id), r.old, r.new)
    BY <1>2 DEF SavedDoc
  <2>. DEFINE kind == r.kind  old == r.old  new == r.new  stored == Doc(r.kind, r.id)
  <2>4. kind \in Kinds /\ stored \in Schema[kind] /\ old \in Schema[kind] /\ new \in Schema[kind]
    BY <1>0, <2>1, <2>2
  <2>5. /\ SavedDoc(r) = Saved(stored, old, new)
        /\ kind = "connector" /\ r.id \in Docs("connector") => stored.charger \in Docs("charger")
    BY <2>3 DEF StoreInv
  <2>6. Keeps(kind, old, new)
    BY <2>1
  <2>. HIDE DEF kind, old, new, stored
  <2>7. /\ Saved(stored, old, new) \in Schema[kind]
        /\ kind = "charger" /\ new.hardwareStatus = old.hardwareStatus
             => Saved(stored, old, new).hardwareStatus = stored.hardwareStatus
        /\ kind = "connector"
             => Saved(stored, old, new).charger \in {stored.charger, new.charger}
        /\ kind = "tariff" /\ new.company = old.company
             => Saved(stored, old, new).company = stored.company
        /\ kind = "tariff"
             => Saved(stored, old, new).status
                  = IF new.status = old.status THEN stored.status ELSE new.status
    BY <2>4, SavedTyped
  <2>8. SavedDoc(r) \in Schema[r.kind]
    BY <2>5, <2>7 DEF kind
  <2>9. r.kind = "connector" => SavedDoc(r).charger \in Docs("charger")
    BY <2>1, <2>5, <2>7 DEF kind, new
  <2>10. r.kind = "charger" => SavedDoc(r).hardwareStatus = Doc("charger", r.id).hardwareStatus
    BY <2>5, <2>6, <2>7 DEF kind, stored, Keeps
  <2>11. r.kind = "tariff"
           => /\ r.old \in Tariff
              /\ SavedDoc(r).company = Doc("tariff", r.id).company
              /\ SavedDoc(r).status = IF r.new.status = r.old.status
                                      THEN Doc("tariff", r.id).status ELSE r.new.status
    BY <2>1, <2>5, <2>6, <2>7, SchemaOf DEF kind, stored, old, new, Keeps
  <2>. QED BY <2>8, <2>9, <2>10, <2>11
<1>. QED BY <1>1, <1>2

LEMMA SaveMeans ==
  ASSUME IInv, NEW p \in Slots, save(p)
  PROVE  /\ request[p] # Idle /\ request[p].step = "save" /\ Sound(store, request[p])
         /\ request' = [request EXCEPT ![p] = Idle]
         /\ UNCHANGED <<requests, hardwareVars>>
         /\ \/ UNCHANGED store
            \/ /\ IndexAdmits(request[p].kind, request[p].id, SavedDoc(request[p]))
               /\ Put(request[p].kind, request[p].id, SavedDoc(request[p]))
BY DEF save, IInv, RequestInv, Idle, SavedDoc

LEMMA SaveKeeps ==
  ASSUME IInv, NEW p \in Slots, save(p)
  PROVE  IInv'
<1>. DEFINE r == request[p]
            d == SavedDoc(r)
<1>1. /\ r # Idle /\ Sound(store, r)
      /\ request' = [request EXCEPT ![p] = Idle]
      /\ UNCHANGED <<requests, hardwareVars>>
      /\ \/ UNCHANGED store
         \/ IndexAdmits(r.kind, r.id, d) /\ Put(r.kind, r.id, d)
  BY SaveMeans
<1>2. r.kind \in Kinds /\ r.id \in Ids[r.kind] /\ DOMAIN store = Kinds
  BY <1>1 DEF Sound, IInv, StoreInv
<1>3. CASE UNCHANGED store
  <2>1. StoreInv' /\ UniqueInv' /\ HardwareInv'
    BY <1>1, <1>3 DEF IInv, StoreInv, UniqueInv, HardwareInv, hardwareVars, Docs, Doc
  <2>2. RequestInv'
    BY <1>1, <1>2, <1>3, ClearingKeepsRequests DEF IInv, Docs
  <2>. QED BY <2>1, <2>2 DEF IInv
<1>4. CASE IndexAdmits(r.kind, r.id, d) /\ Put(r.kind, r.id, d)
  <2>1. d \in Schema[r.kind] /\ (r.kind = "connector" => d.charger \in Docs("charger"))
    BY <1>1, SavedDocTyped DEF IInv
  <2>2. /\ \A k \in Kinds : k # r.kind => store'[k] = store[k]
        /\ DOMAIN store'[r.kind] = Docs(r.kind) \cup {r.id}
    BY <1>2, <1>4, PutMeans
  <2>3. \A k \in Kinds : DOMAIN store'[k] = IF k = r.kind THEN Docs(k) \cup {r.id} ELSE Docs(k)
    BY <2>2 DEF Docs
  <2>4. r.old = NoDoc \/ r.id \in Docs(r.kind)
    BY <1>1 DEF Sound, Docs
  <2>5. r.old = NoDoc \/ \A k \in Kinds : DOMAIN store'[k] = Docs(k)
    BY <2>3, <2>4
  <2>. HIDE DEF d
  <2>6. StoreInv'
    BY <1>2, <1>4, <2>1, PutKeepsStore DEF IInv
  <2>7. UniqueInv'
    BY <1>2, <1>4, PutKeepsUnique DEF IInv
  <2>8. RequestInv'
    BY <1>1, <1>2, <2>3, <2>5, ClearingKeepsRequests DEF IInv
  <2>9. HardwareInv'
    <3>1. "connector" \in Kinds
      BY DEF Kinds
    <3>2. Docs("connector") \subseteq DOMAIN store'["connector"]
      BY <2>3, <3>1
    <3>. QED BY <1>1, <3>2 DEF IInv, HardwareInv, hardwareVars, Docs
  <2>. QED BY <2>6, <2>7, <2>8, <2>9 DEF IInv
<1>. QED BY <1>1, <1>3, <1>4

LEMMA SwapMeans ==
  ASSUME IInv, NEW p \in Slots, swapTariffs(p)
  PROVE  /\ request[p] # Idle /\ request' = [request EXCEPT ![p] = Idle]
         /\ UNCHANGED <<requests, hardwareVars>>
         /\ request[p].id \in Docs("tariff")
         /\ DOMAIN store' = Kinds
         /\ \A k \in Kinds : k # "tariff" => store'[k] = store[k]
         /\ DOMAIN store'["tariff"] = Docs("tariff")
         /\ \A t \in Docs("tariff") :
              store'["tariff"][t] =
                [Doc("tariff", t) EXCEPT !.status =
                   IF t = request[p].id THEN "active"
                   ELSE IF Doc("tariff", t).company = Doc("tariff", request[p].id).company
                        THEN "inactive" ELSE Doc("tariff", t).status]
<1>. DEFINE id == request[p].id
            E == [OthersOff(id) EXCEPT ![id].status = "active"]
<1>1. /\ request[p] # Idle /\ id \in Docs("tariff") /\ DOMAIN store = Kinds
      /\ \A t \in Docs("tariff") : Doc("tariff", t) \in Tariff
  <2>1. request[p].step = "swap"
    BY DEF swapTariffs
  <2>2. request[p] # Idle /\ Sound(store, request[p])
    BY <2>1 DEF IInv, RequestInv, Idle
  <2>3. id \in Docs("tariff")
    BY <2>1, <2>2 DEF Sound, Docs
  <2>. QED BY <2>2, <2>3, SchemaOf DEF IInv, StoreInv, Kinds
<1>2. /\ store' = [store EXCEPT !["tariff"] = E]
      /\ request' = [request EXCEPT ![p] = Idle]
      /\ UNCHANGED <<requests, hardwareVars>>
  BY DEF swapTariffs
<1>3. DOMAIN E = Docs("tariff")
  BY DEF OthersOff
<1>4. ASSUME NEW t \in Docs("tariff")
      PROVE  E[t] = [Doc("tariff", t) EXCEPT !.status =
                       IF t = id THEN "active"
                       ELSE IF Doc("tariff", t).company = Doc("tariff", id).company
                            THEN "inactive" ELSE Doc("tariff", t).status]
  <2>. DEFINE d == Doc("tariff", t)
  <2>0. d \in Tariff
    BY <1>1
  <2>1. OthersOff(id)[t] = IF d.company = Doc("tariff", id).company /\ d.status = "active"
                           THEN [d EXCEPT !.status = "inactive"] ELSE d
    BY DEF OthersOff
  <2>2. d.status = "inactive" => d = [d EXCEPT !.status = "inactive"]
    BY <2>0 DEF Tariff
  <2>3. d = [d EXCEPT !.status = d.status]
    BY <2>0 DEF Tariff
  <2>4. d.status \in {"active", "inactive"}
    BY <2>0 DEF Tariff, TARIFF_STATUSES
  <2>5. CASE t # id
    <3>1. E[t] = OthersOff(id)[t]
      BY <2>5 DEF OthersOff
    <3>. HIDE DEF E, d
    <3>2. E[t] = [d EXCEPT !.status = IF d.company = Doc("tariff", id).company
                                      THEN "inactive" ELSE d.status]
      BY <2>1, <2>2, <2>3, <2>4, <3>1
    <3>. QED BY <2>5, <3>2 DEF d
  <2>6. CASE t = id
    <3>1. E[t] = [OthersOff(id)[t] EXCEPT !.status = "active"]
      BY <2>6 DEF OthersOff
    <3>2. [[d EXCEPT !.status = "inactive"] EXCEPT !.status = "active"]
             = [d EXCEPT !.status = "active"]
      BY <2>0 DEF Tariff
    <3>. HIDE DEF E, d
    <3>. QED BY <2>1, <2>6, <3>1, <3>2 DEF d
  <2>. QED BY <2>5, <2>6
<1>. HIDE DEF E
<1>5. /\ DOMAIN store' = Kinds /\ store'["tariff"] = E
      /\ \A k \in Kinds : k # "tariff" => store'[k] = store[k]
  BY <1>1, <1>2 DEF Kinds
<1>. QED BY <1>1, <1>2, <1>3, <1>4, <1>5

LEMMA SwapKeeps ==
  ASSUME IInv, NEW p \in Slots, swapTariffs(p)
  PROVE  IInv'
<1>. DEFINE id == request[p].id
            statusOf(t) == IF t = id THEN "active"
                           ELSE IF Doc("tariff", t).company = Doc("tariff", id).company
                                THEN "inactive" ELSE Doc("tariff", t).status
<1>1. /\ request[p] # Idle /\ request' = [request EXCEPT ![p] = Idle]
      /\ UNCHANGED <<requests, hardwareVars>>
      /\ id \in Docs("tariff")
      /\ DOMAIN store' = Kinds
      /\ \A k \in Kinds : k # "tariff" => store'[k] = store[k]
      /\ DOMAIN store'["tariff"] = Docs("tariff")
      /\ \A t \in Docs("tariff") :
           store'["tariff"][t] = [Doc("tariff", t) EXCEPT !.status = statusOf(t)]
  BY SwapMeans
<1>2. /\ DOMAIN store = Kinds /\ "tariff" \in Kinds
      /\ \A t \in Docs("tariff") : Doc("tariff", t) \in Tariff
  BY SchemaOf DEF IInv, StoreInv, Kinds
<1>3. ASSUME NEW t \in Docs("tariff")
      PROVE  /\ store'["tariff"][t] \in Tariff
             /\ store'["tariff"][t].company = Doc("tariff", t).company
             /\ store'["tariff"][t].status = statusOf(t)
  <2>1. Doc("tariff", t) \in Tariff /\ statusOf(t) \in TARIFF_STATUSES
    BY <1>2 DEF Tariff, TARIFF_STATUSES
  <2>. HIDE DEF statusOf
  <2>. QED BY <1>1, <2>1 DEF Tariff
<1>. HIDE DEF id, statusOf
<1>4. \A k \in Kinds : DOMAIN store'[k] = Docs(k)
  BY <1>1 DEF Docs
<1>5. StoreInv'
  <2>1. \A k \in Kinds : /\ DOMAIN store'[k] \subseteq Ids[k]
                         /\ \A o \in DOMAIN store'[k] : store'[k][o] \in Schema[k]
    BY <1>1, <1>3, <1>4, SchemaOf DEF IInv, StoreInv, Docs, Doc
  <2>2. store'["connector"] = store["connector"] /\ store'["charger"] = store["charger"]
    BY <1>1 DEF Kinds
  <2>. QED BY <1>1, <2>1, <2>2 DEF IInv, StoreInv, Docs, Doc
<1>6. UniqueInv'
  <2>. SUFFICES ASSUME NEW k \in Kinds, NEW i \in DOMAIN store'[k], NEW j \in DOMAIN store'[k],
                       i # j
                PROVE  Identities(k, store'[k][i]) \cap Identities(k, store'[k][j]) = {}
    BY DEF UniqueInv, Distinct
  <2>1. CASE k # "tariff"
    BY <1>1, <2>1 DEF IInv, UniqueInv, Distinct
  <2>2. CASE k = "tariff"
    <3>1. i \in Docs("tariff") /\ j \in Docs("tariff")
      BY <1>4, <2>2
    <3>2. ASSUME Doc("tariff", i).status = "active", Doc("tariff", j).status = "active"
          PROVE  Doc("tariff", i).company # Doc("tariff", j).company
      <4>1. Identities("tariff", Doc("tariff", i)) \cap Identities("tariff", Doc("tariff", j)) = {}
        BY <1>2, <3>1 DEF IInv, UniqueInv, Distinct, Docs, Doc
      <4>2. Identities("tariff", Doc("tariff", i)) = {<<"active", Doc("tariff", i).company>>}
            /\ Identities("tariff", Doc("tariff", j)) = {<<"active", Doc("tariff", j).company>>}
        BY <3>2 DEF Identities
      <4>. QED BY <4>1, <4>2
    <3>. DEFINE di == store'["tariff"][i]
                dj == store'["tariff"][j]
    <3>3. ~(di.status = "active" /\ dj.status = "active" /\ di.company = dj.company)
      BY <1>3, <3>1, <3>2 DEF statusOf
    <3>4. Identities("tariff", di) =
            (IF di.status = "active" THEN {<<"active", di.company>>} ELSE {})
          /\ Identities("tariff", dj) =
               (IF dj.status = "active" THEN {<<"active", dj.company>>} ELSE {})
      BY DEF Identities
    <3>. HIDE DEF di, dj
    <3>5. Identities("tariff", di) \cap Identities("tariff", dj) = {}
      BY <3>3, <3>4
    <3>. QED BY <2>2, <3>5 DEF di, dj
  <2>. QED BY <2>1, <2>2
<1>7. RequestInv'
  BY <1>1, <1>2, <1>4, ClearingKeepsRequests DEF IInv
<1>8. HardwareInv'
  <2>1. store'["connector"] = store["connector"]
    BY <1>1 DEF Kinds
  <2>. QED BY <1>1, <2>1 DEF IInv, HardwareInv, hardwareVars, Docs
<1>. QED BY <1>5, <1>6, <1>7, <1>8 DEF IInv

-----------------------------------------------------------------------------
(* The hardware and the sessions *)

LEMMA SameDocsKeepRequests ==
  ASSUME RequestInv, UNCHANGED request, \A k \in Kinds : DOMAIN store'[k] = Docs(k)
  PROVE  RequestInv'
<1>1. ASSUME NEW p \in Slots PROVE request'[p] = Idle \/ Sound(store', request'[p])
  BY DEF RequestInv, Sound, Docs, Kinds
<1>. QED BY <1>1 DEF RequestInv

\* A report changes one document in place, and nothing it is known by.
LEMMA ReportKeeps ==
  ASSUME IInv, NEW kind \in Kinds, NEW id \in Docs(kind), NEW d \in Schema[kind],
         Identities(kind, d) = Identities(kind, Doc(kind, id)),
         kind = "connector" => d.charger = Doc(kind, id).charger,
         Put(kind, id, d), reports' = reports + 1, UNCHANGED <<adminVars, starting, open>>
  PROVE  IInv'
<1>1. DOMAIN store = Kinds /\ id \in Ids[kind]
  BY DEF IInv, StoreInv
<1>2. \A k \in Kinds : DOMAIN store'[k] = Docs(k)
  BY <1>1, PutMeans DEF Docs
<1>3. StoreInv'
  BY <1>1, PutKeepsStore DEF IInv, StoreInv
<1>4. UniqueInv'
  <2>1. IndexAdmits(kind, id, d)
    BY <1>1, SameIdentities DEF IInv
  <2>. QED BY <1>1, <2>1, PutKeepsUnique DEF IInv
<1>5. RequestInv'
  BY <1>2, SameDocsKeepRequests DEF IInv, adminVars
<1>6. HardwareInv'
  <2>1. DOMAIN store'["connector"] = DOMAIN store["connector"]
    BY <1>2 DEF Kinds, Docs
  <2>. QED BY <2>1 DEF IInv, HardwareInv, Docs
<1>. QED BY <1>3, <1>4, <1>5, <1>6 DEF IInv

LEMMA MappedStatus ==
  /\ \A s \in DOMAIN STATUS_MAP : STATUS_MAP[s] \in CONNECTOR_STATUSES
  /\ \A s \in DOMAIN CHARGE_POINT_STATUS_MAP :
       CHARGE_POINT_STATUS_MAP[s] \in CHARGER_HARDWARE_STATUSES
BY DEF STATUS_MAP, CHARGE_POINT_STATUS_MAP, CONNECTOR_STATUSES, CHARGER_HARDWARE_STATUSES

LEMMA PlugReportKeeps ==
  ASSUME IInv, NEW c \in Ids.connector, NEW s \in DOMAIN STATUS_MAP,
         handleStatusNotification(c, s)
  PROVE  IInv'
<1>. DEFINE old == Doc("connector", c)
            d == [old EXCEPT !.status = STATUS_MAP[s]]
<1>1. /\ c \in Docs("connector") /\ Put("connector", c, d)
      /\ reports' = reports + 1 /\ UNCHANGED <<adminVars, starting, open>>
  BY DEF handleStatusNotification
<1>2. "connector" \in Kinds /\ old \in Connector
  BY <1>1, SchemaOf DEF Kinds, IInv, StoreInv
<1>3. d \in Connector /\ d.charger = old.charger /\ d.number = old.number
  BY <1>2, MappedStatus DEF Connector
<1>. HIDE DEF d
<1>4. Identities("connector", d) = Identities("connector", old)
  BY <1>3 DEF Identities
<1>. QED BY <1>1, <1>2, <1>3, <1>4, SchemaOf, ReportKeeps

LEMMA MachineReportKeeps ==
  ASSUME IInv, NEW ch \in Ids.charger, NEW s \in DOMAIN CHARGE_POINT_STATUS_MAP,
         handleChargePointStatus(ch, s)
  PROVE  IInv'
<1>. DEFINE old == Doc("charger", ch)
            mapped == CHARGE_POINT_STATUS_MAP[s]
            d == [old EXCEPT !.hardwareStatus = mapped,
                             !.faultReportedAt = IF mapped = "operative" THEN 0 ELSE reports + 1]
<1>1. /\ ch \in Docs("charger") /\ (Put("charger", ch, d) \/ UNCHANGED store)
      /\ reports' = reports + 1 /\ UNCHANGED <<adminVars, starting, open>>
  BY DEF handleChargePointStatus
<1>2. "charger" \in Kinds /\ old \in Charger /\ reports \in Nat
  BY <1>1, SchemaOf DEF Kinds, IInv, StoreInv, HardwareInv
<1>3. CASE Put("charger", ch, d)
  <2>1. d \in Charger /\ d.station = old.station /\ d.ocppId = old.ocppId /\ d.code = old.code
    <3>. DEFINE e == [old EXCEPT !.hardwareStatus = mapped]
                at == IF mapped = "operative" THEN 0 ELSE reports + 1
    <3>1. at \in Nat /\ mapped \in CHARGER_HARDWARE_STATUSES
      BY <1>2, MappedStatus
    <3>. HIDE DEF mapped, at
    <3>2. e \in Charger /\ e.station = old.station /\ e.ocppId = old.ocppId /\ e.code = old.code
      BY <1>2, <3>1 DEF Charger
    <3>3. d = [e EXCEPT !.faultReportedAt = at]
      BY DEF at
    <3>. HIDE DEF d, e
    <3>. QED BY <3>1, <3>2, <3>3 DEF Charger
  <2>. HIDE DEF d
  <2>2. Identities("charger", d) = Identities("charger", old)
    BY <2>1 DEF Identities
  <2>. QED BY <1>1, <1>2, <1>3, <2>1, <2>2, SchemaOf, ReportKeeps
<1>4. CASE UNCHANGED store
  <2>1. StoreInv' /\ UniqueInv'
    BY <1>4 DEF IInv, StoreInv, UniqueInv, Docs, Doc
  <2>2. RequestInv'
    BY <1>1, <1>4, SameDocsKeepRequests DEF IInv, adminVars, Docs
  <2>3. HardwareInv'
    BY <1>1, <1>4 DEF IInv, HardwareInv, Docs
  <2>. QED BY <2>1, <2>2, <2>3 DEF IInv
<1>. QED BY <1>1, <1>3, <1>4

LEMMA ReleaseMeans ==
  ASSUME IInv, NEW f, releaseConnectors(f)
  PROVE  /\ UNCHANGED <<adminVars, starting, open, reports>>
         /\ DOMAIN store' = Kinds
         /\ \A k \in Kinds : k # "connector" => store'[k] = store[k]
         /\ DOMAIN store'["connector"] = Docs("connector")
         /\ \A c \in Docs("connector") :
              \/ store'["connector"][c] = Doc("connector", c)
              \/ store'["connector"][c] = [Doc("connector", c) EXCEPT !.status = "unavailable"]
BY DEF releaseConnectors, IInv, StoreInv, Docs, Doc, Kinds

LEMMA ReleaseKeeps ==
  ASSUME IInv, NEW f, releaseConnectors(f)
  PROVE  IInv'
<1>1. /\ UNCHANGED <<adminVars, starting, open, reports>>
      /\ DOMAIN store' = Kinds
      /\ \A k \in Kinds : k # "connector" => store'[k] = store[k]
      /\ DOMAIN store'["connector"] = Docs("connector")
      /\ \A c \in Docs("connector") :
           \/ store'["connector"][c] = Doc("connector", c)
           \/ store'["connector"][c] = [Doc("connector", c) EXCEPT !.status = "unavailable"]
  BY ReleaseMeans
<1>2. \A k \in Kinds : DOMAIN store'[k] = Docs(k)
  BY <1>1 DEF Docs
<1>3. ASSUME NEW c \in Docs("connector")
      PROVE  /\ store'["connector"][c] \in Connector
             /\ store'["connector"][c].charger = Doc("connector", c).charger
             /\ Identities("connector", store'["connector"][c])
                  = Identities("connector", Doc("connector", c))
  <2>1. Doc("connector", c) \in Connector
    BY SchemaOf DEF IInv, StoreInv, Kinds
  <2>2. /\ store'["connector"][c] \in Connector
        /\ store'["connector"][c].charger = Doc("connector", c).charger
        /\ store'["connector"][c].number = Doc("connector", c).number
    BY <1>1, <2>1 DEF Connector, CONNECTOR_STATUSES
  <2>. QED BY <2>2 DEF Identities
<1>4. StoreInv'
  <2>1. \A k \in Kinds : /\ DOMAIN store'[k] \subseteq Ids[k]
                         /\ \A o \in DOMAIN store'[k] : store'[k][o] \in Schema[k]
    BY <1>1, <1>2, <1>3, SchemaOf DEF IInv, StoreInv, Docs, Doc
  <2>2. \A c \in DOMAIN store'["connector"] :
          store'["connector"][c].charger \in DOMAIN store'["charger"]
    BY <1>1, <1>2, <1>3 DEF IInv, StoreInv, Docs, Doc, Kinds
  <2>. QED BY <1>1, <2>1, <2>2 DEF StoreInv, Docs, Doc
<1>5. UniqueInv'
  <2>. SUFFICES ASSUME NEW k \in Kinds, NEW i \in DOMAIN store'[k], NEW j \in DOMAIN store'[k],
                       i # j
                PROVE  Identities(k, store'[k][i]) \cap Identities(k, store'[k][j]) = {}
    BY DEF UniqueInv, Distinct
  <2>1. \A o \in Docs(k) : Identities(k, store'[k][o]) = Identities(k, Doc(k, o))
    BY <1>1, <1>3 DEF Doc
  <2>. QED BY <1>2, <2>1 DEF IInv, UniqueInv, Distinct, Docs, Doc
<1>6. RequestInv'
  BY <1>1, <1>2, SameDocsKeepRequests DEF IInv, adminVars
<1>7. HardwareInv'
  BY <1>1 DEF IInv, HardwareInv, Docs
<1>. QED BY <1>4, <1>5, <1>6, <1>7 DEF IInv

\* What sessions do leaves the documents and the requests alone.
LEMMA SessionStepKeeps ==
  ASSUME IInv,
         \/ \E f \in failing : failSessions(f)
         \/ \E c \in Ids.connector : startSession(c) \/ createSession(c)
         \/ \E s \in open : endSession(s)
  PROVE  IInv' /\ UNCHANGED <<store, adminVars>>
<1>1. UNCHANGED <<store, adminVars, reports>>
  BY DEF failSessions, startSession, createSession, endSession
<1>2. StoreInv' /\ UniqueInv'
  BY <1>1 DEF IInv, StoreInv, UniqueInv, Docs, Doc
<1>3. RequestInv'
  BY <1>1, SameDocsKeepRequests DEF IInv, adminVars, Docs
<1>4. HardwareInv'
  <2>0. HardwareInv
    BY DEF IInv
  <2>1. CASE \E f \in failing : failSessions(f)
    BY <1>1, <2>0, <2>1 DEF failSessions, HardwareInv, Docs
  <2>2. CASE \E c \in Ids.connector : startSession(c)
    BY <1>1, <2>0, <2>2 DEF startSession, HardwareInv, Docs
  <2>3. CASE \E c \in Ids.connector : createSession(c)
    BY <1>1, <2>0, <2>3 DEF createSession, HardwareInv, Docs
  <2>4. CASE \E s \in open : endSession(s)
    BY <1>1, <2>0, <2>4 DEF endSession, HardwareInv, Docs
  <2>. QED BY <2>1, <2>2, <2>3, <2>4
<1>. QED BY <1>1, <1>2, <1>3, <1>4 DEF IInv

-----------------------------------------------------------------------------
LEMMA NextKeeps == IInv /\ [Next]_vars => IInv'
<1>. SUFFICES ASSUME IInv, [Next]_vars PROVE IInv'
  OBVIOUS
<1>1. CASE \E p \in FirstFree, a \in Actors : AdminStep(p, a)
  <2>1. FirstFree \subseteq Slots
    BY DEF FirstFree
  <2>2. PICK p \in Slots, a \in Actors : AdminStep(p, a)
    BY <1>1, <2>1
  <2>. QED BY <2>2, AdminOpens, OpeningKeeps DEF IInv
<1>2. CASE \E p \in Slots : check(p) \/ save(p) \/ swapTariffs(p)
  BY <1>2, CheckKeeps, SaveKeeps, SwapKeeps
<1>3. CASE HardwareStep
  <2>1. Values.report \subseteq DOMAIN STATUS_MAP
    BY InputsAssumption DEF STATUS_MAP
  <2>. QED BY <1>3, <2>1, PlugReportKeeps, MachineReportKeeps DEF HardwareStep
<1>4. CASE \E f \in failing : releaseConnectors(f)
  BY <1>4, ReleaseKeeps
<1>5. CASE \/ \E f \in failing : failSessions(f)
           \/ \E c \in Ids.connector : startSession(c) \/ createSession(c)
           \/ \E s \in open : endSession(s)
  BY <1>5, SessionStepKeeps
<1>6. CASE UNCHANGED vars
  <2>1. StoreInv' /\ UniqueInv' /\ HardwareInv'
    BY <1>6 DEF IInv, StoreInv, UniqueInv, HardwareInv, vars, adminVars, hardwareVars, Docs, Doc
  <2>2. RequestInv'
    BY <1>6, SameDocsKeepRequests DEF IInv, vars, adminVars, Docs
  <2>. QED BY <2>1, <2>2 DEF IInv
<1>. QED BY <1>1, <1>2, <1>3, <1>4, <1>5, <1>6 DEF Next

LEMMA Invariant == Spec => []IInv
BY InitInv, NextKeeps, PTL DEF Spec

\* Every document has its type, and starts and sessions are on plugs that exist.
THEOREM TypeCorrect == Spec => []TypeOK
<1>1. IInv => TypeOK
  BY SchemaOf DEF IInv, StoreInv, HardwareInv, TypeOK, Kinds
<1>. QED BY <1>1, Invariant, PTL

\* However many requests overlap between their check and their save, no two documents share
\* what a unique index covers, and no company has two active tariffs.
THEOREM IdentitiesStayUnique == Spec => []IdentitiesUnique
<1>1. IInv => IdentitiesUnique
  BY UniqueMeans DEF IInv
<1>. QED BY <1>1, Invariant, PTL

\* The map never counts a plug as available that its station's own list would not let start,
\* except where that list says there is no price.
THEOREM MarkersAreHonest == Spec => []MarkersAgreeWithPlugs
<1>1. IInv => MarkersAgreeWithPlugs
  <2>. SUFFICES ASSUME IInv, NEW s \in DOMAIN listPublicStations,
                       NEW c \in listPublicStations[s]
                PROVE  LET view == listConnectorsForChargingAtStation(s)[c]
                       IN view.canStart \/ ~ view.priced
    BY DEF MarkersAgreeWithPlugs
  <2>1. c \in availabilityByStation(s)
    BY DEF listPublicStations
  <2>2. c \in At(s) /\ c \in Docs("connector")
    BY <2>1 DEF availabilityByStation, At
  <2>. DEFINE ch == Doc("charger", Doc("connector", c).charger)
  <2>3. /\ ch.status = "available" /\ ch.hardwareStatus \notin {"faulted", "unavailable"}
        /\ Doc("connector", c).status = "available"
    BY <2>1 DEF availabilityByStation
  <2>4. ch \in Charger
    BY <2>2, SchemaOf DEF IInv, StoreInv, Kinds
  <2>5. ch.hardwareStatus = "operative"
    BY <2>3, <2>4 DEF Charger, CHARGER_HARDWARE_STATUSES
  <2>6. assessStartability(c)
    BY <2>3, <2>5 DEF assessStartability
  <2>. DEFINE priced == Priced(CompanyOfDoc("connector", Doc("connector", c)))
  <2>7. canStart(c) <=> priced
    BY <2>6 DEF canStart
  <2>8. listConnectorsForChargingAtStation(s)[c] = [canStart |-> canStart(c), priced |-> priced]
    BY <2>2 DEF listConnectorsForChargingAtStation, getConnectorForCharging
  <2>. HIDE DEF priced
  <2>. QED BY <2>7, <2>8
<1>. QED BY <1>1, Invariant, PTL

-----------------------------------------------------------------------------
(* What a step may never do *)

\* Whatever a step is, it stores nothing, or saves, swaps, reports or releases.
LEMMA StoreSteps ==
  ASSUME IInv, [Next]_vars
  PROVE  \/ UNCHANGED store
         \/ \E p \in Slots : save(p) \/ swapTariffs(p)
         \/ HardwareStep
         \/ \E f \in failing : releaseConnectors(f)
<1>1. CASE \E p \in FirstFree, a \in Actors : AdminStep(p, a)
  <2>1. FirstFree \subseteq Slots
    BY DEF FirstFree
  <2>2. PICK p \in Slots, a \in Actors : AdminStep(p, a)
    BY <1>1, <2>1
  <2>. QED BY <2>2, AdminOpens DEF IInv, Opens
<1>2. CASE \E p \in Slots : check(p)
  BY <1>2 DEF check
<1>3. CASE \/ \E f \in failing : failSessions(f)
           \/ \E c \in Ids.connector : startSession(c) \/ createSession(c)
           \/ \E s \in open : endSession(s)
  BY <1>3, SessionStepKeeps
<1>4. CASE UNCHANGED vars
  BY <1>4 DEF vars
<1>. QED BY <1>1, <1>2, <1>3, <1>4 DEF Next

LEMMA ReportStep ==
  ASSUME IInv, [Next]_vars, NEW ch \in Docs("charger"),
         store'.charger[ch].hardwareStatus # Doc("charger", ch).hardwareStatus
  PROVE  reports' > reports
<1>0. "charger" \in Kinds /\ DOMAIN store = Kinds
  BY DEF Kinds, IInv, StoreInv
<1>1. ~ UNCHANGED store
  BY DEF Doc
<1>2. ASSUME NEW p \in Slots, save(p) PROVE FALSE
  <2>. DEFINE r == request[p]
              d == SavedDoc(r)
  <2>1. Sound(store, r) /\ Put(r.kind, r.id, d)
    BY <1>1, <1>2, SaveMeans
  <2>2. /\ r.kind \in Kinds
        /\ r.kind = "charger" /\ r.id \in Docs("charger")
             => d.hardwareStatus = Doc("charger", r.id).hardwareStatus
    BY <2>1, SavedDocTyped DEF Sound, IInv
  <2>3. /\ \A k \in Kinds : k # r.kind => store'[k] = store[k]
        /\ store'[r.kind][r.id] = d
        /\ \A o \in Docs(r.kind) : o # r.id => store'[r.kind][o] = Doc(r.kind, o)
    BY <1>0, <2>1, <2>2, PutMeans
  <2>. HIDE DEF d
  <2>. QED BY <1>0, <2>2, <2>3 DEF Doc
<1>3. ASSUME NEW p \in Slots, swapTariffs(p) PROVE FALSE
  <2>1. store'["charger"] = store["charger"]
    BY <1>0, <1>3, SwapMeans
  <2>. QED BY <2>1 DEF Doc
<1>4. ASSUME HardwareStep PROVE reports' > reports
  <2>1. ASSUME NEW c, NEW s, handleStatusNotification(c, s) PROVE reports' = reports + 1
    BY <2>1 DEF handleStatusNotification
  <2>2. ASSUME NEW c, NEW s, handleChargePointStatus(c, s) PROVE reports' = reports + 1
    BY <2>2 DEF handleChargePointStatus
  <2>3. reports' = reports + 1 /\ reports \in Nat
    BY <1>4, <2>1, <2>2 DEF HardwareStep, IInv, HardwareInv
  <2>. QED BY <2>3
<1>5. ASSUME NEW f \in failing, releaseConnectors(f) PROVE FALSE
  <2>1. store'["charger"] = store["charger"]
    BY <1>0, <1>5, ReleaseMeans
  <2>. QED BY <2>1 DEF Doc
<1>. QED BY <1>1, <1>2, <1>3, <1>4, <1>5, StoreSteps

LEMMA PriceStep ==
  ASSUME IInv, [Next]_vars, NEW co \in Companies, Priced(co), ~Priced(co)'
  PROVE  \E p \in Slots : Deactivates(p)
<1>0. "tariff" \in Kinds /\ DOMAIN store = Kinds
  BY DEF Kinds, IInv, StoreInv
<1>1. PICK t \in Docs("tariff") : Doc("tariff", t).company = co /\ Doc("tariff", t).status = "active"
  BY DEF Priced, findActiveTariffForCompany
<1>2. ~(/\ t \in DOMAIN store'["tariff"] /\ store'["tariff"][t].company = co
        /\ store'["tariff"][t].status = "active")
  BY DEF Priced, findActiveTariffForCompany, Docs, Doc
<1>3. store'["tariff"] # store["tariff"]
  BY <1>1, <1>2 DEF Docs, Doc
<1>4. ASSUME NEW p \in Slots, save(p) PROVE Deactivates(p)
  <2>. DEFINE r == request[p]
              d == SavedDoc(r)
  <2>1. Sound(store, r) /\ Put(r.kind, r.id, d) /\ r.step = "save"
        /\ request' = [request EXCEPT ![p] = Idle]
    BY <1>3, <1>4, SaveMeans
  <2>2. /\ r.kind \in Kinds /\ r.new \in Schema[r.kind]
        /\ r.kind = "tariff" /\ r.id \in Docs("tariff")
             => /\ r.old \in Tariff
                /\ d.company = Doc("tariff", r.id).company
                /\ d.status = IF r.new.status = r.old.status
                              THEN Doc("tariff", r.id).status ELSE r.new.status
    BY <2>1, SavedDocTyped DEF Sound, IInv
  <2>3. /\ \A k \in Kinds : k # r.kind => store'[k] = store[k]
        /\ DOMAIN store'[r.kind] = Docs(r.kind) \cup {r.id}
        /\ store'[r.kind][r.id] = d
        /\ \A o \in Docs(r.kind) : o # r.id => store'[r.kind][o] = Doc(r.kind, o)
    BY <1>0, <2>1, <2>2, PutMeans
  <2>. HIDE DEF d
  <2>4. r.kind = "tariff"
    BY <1>0, <1>3, <2>3
  <2>5. r.id = t
    BY <1>1, <1>2, <2>3, <2>4
  <2>6. r.new.status # r.old.status /\ r.new.status # "active"
    BY <1>1, <1>2, <2>2, <2>3, <2>4, <2>5
  <2>7. r.old \in Tariff /\ r.new \in Tariff
    BY <1>1, <2>2, <2>4, <2>5, SchemaOf
  <2>8. r.old.status = "active" /\ r.new.status = "inactive"
    BY <2>6, <2>7 DEF Tariff, TARIFF_STATUSES
  <2>9. r.old # NoDoc
    BY <1>0, <2>7, NoDocIsNone, SchemaOf
  <2>10. request'[p] = Idle
    BY <2>1 DEF IInv, RequestInv
  <2>. QED BY <2>1, <2>4, <2>8, <2>9, <2>10 DEF Deactivates
<1>5. ASSUME NEW p \in Slots, swapTariffs(p) PROVE FALSE
  <2>. DEFINE id == request[p].id
  <2>1. /\ id \in Docs("tariff")
        /\ DOMAIN store'["tariff"] = Docs("tariff")
        /\ \A u \in Docs("tariff") :
             store'["tariff"][u] =
               [Doc("tariff", u) EXCEPT !.status =
                  IF u = id THEN "active"
                  ELSE IF Doc("tariff", u).company = Doc("tariff", id).company
                       THEN "inactive" ELSE Doc("tariff", u).status]
    BY <1>5, SwapMeans
  <2>2. \A u \in Docs("tariff") : Doc("tariff", u) \in Tariff
    BY <1>0, SchemaOf DEF IInv, StoreInv
  <2>. DEFINE now(u) == store'["tariff"][u]
  <2>3. now(t).company = co
    BY <1>1, <2>1, <2>2 DEF Tariff
  <2>4. CASE Doc("tariff", id).company = co
    <3>1. now(id).company = co /\ now(id).status = "active"
      BY <2>1, <2>2, <2>4 DEF Tariff
    <3>. QED BY <2>1, <3>1 DEF Priced, findActiveTariffForCompany, Docs, Doc
  <2>5. CASE Doc("tariff", id).company # co
    <3>1. now(t).status = "active"
      BY <1>1, <2>1, <2>2, <2>5 DEF Tariff
    <3>. QED BY <1>2, <2>1, <2>3, <3>1
  <2>. QED BY <2>4, <2>5
<1>6. ASSUME HardwareStep \/ \E f \in failing : releaseConnectors(f) PROVE FALSE
  <2>1. ASSUME NEW kind \in Kinds, kind # "tariff", NEW id, NEW d, Put(kind, id, d) PROVE FALSE
    BY <1>0, <1>3, <2>1, PutMeans
  <2>2. CASE HardwareStep
    BY <1>3, <2>1, <2>2
       DEF HardwareStep, handleStatusNotification, handleChargePointStatus, Kinds
  <2>3. CASE \E f \in failing : releaseConnectors(f)
    BY <1>0, <1>3, <2>3, ReleaseMeans
  <2>. QED BY <1>6, <2>2, <2>3
<1>. QED BY <1>3, <1>4, <1>5, <1>6, StoreSteps

\* No save of an administrator's older copy, and no other step than a report, changes what a
\* machine last said about itself.
THEOREM ReportsStand == Spec => ReportsOutliveSaves
<1>1. IInv /\ [Next]_vars
        => [\A ch \in Docs("charger") :
              store'.charger[ch].hardwareStatus # Doc("charger", ch).hardwareStatus =>
                reports' > reports]_vars
  BY ReportStep
<1>. QED BY <1>1, Invariant, PTL DEF Spec, ReportsOutliveSaves

\* A company that has a price loses it by the save of a deactivation only, never between the
\* two writes of an activation.
THEOREM ActivationsKeepPrices == Spec => ActivationNeverUnprices
<1>1. IInv /\ [Next]_vars
        => [\A co \in Companies :
              Priced(co) /\ ~Priced(co)' => \E p \in Slots : Deactivates(p)]_vars
  BY PriceStep
<1>. QED BY <1>1, Invariant, PTL DEF Spec, ActivationNeverUnprices

=============================================================================
