---------------------------- MODULE AccessProofs ----------------------------
(***************************************************************************)
(* Theorems about Access, for any accounts, companies, cars, requests and  *)
(* browsers: documents and what refers to them stay well formed, a request *)
(* that comes after a suspension reaches no handler, and a suspension cuts *)
(* the live connections it finds.  Which route asks for an active company  *)
(* and which roles it names (Routes) play no part in these proofs.         *)
(*                                                                         *)
(* Then about the tables of Routes and Pages: no route is hidden by one    *)
(* that is tried before it, so what the browser sends reaches the handler  *)
(* it is meant for, and whatever a page offers to whoever it lets in,      *)
(* opens.  These go through the tables once, router by router and page by  *)
(* page, and compose.                                                      *)
(***************************************************************************)
EXTENDS Pages, SequenceTheorems, TLAPS

TypeInv == TypeOK /\ ReferencesOK

-----------------------------------------------------------------------------
(* How documents change *)

\* Accounts and companies are never deleted, and an account keeps its role and
\* its company.
Kept ==
  /\ DOMAIN users \subseteq DOMAIN users'
  /\ DOMAIN companies \subseteq DOMAIN companies'
  /\ \A u \in DOMAIN users : /\ users'[u].role = users[u].role
                             /\ users'[u].company = users[u].company

DocumentsOK ==
  /\ DOMAIN users \subseteq Users /\ users \in [DOMAIN users -> UserDocs]
  /\ DOMAIN companies \subseteq Companies /\ companies \in [DOMAIN companies -> CompanyDocs]
  /\ DOMAIN vehicles \subseteq Vehicles /\ vehicles \in [DOMAIN vehicles -> VehicleDocs]
  /\ \A u \in DOMAIN users :
       IF users[u].role \in COMPANY_SCOPED_ROLES THEN users[u].company \in DOMAIN companies
       ELSE users[u].company = Nothing

LEMMA RequestedOps ==
  ASSUME TypeInv, NEW op \in Requested
  PROVE  /\ op \in Ops
         /\ op.kind # "none" /\ op.kind # "registerDriver"
         /\ op.kind = "createUser" => /\ op.role \in ASSIGNABLE_COMPANY_ROLES
                                      /\ op.to \in DOMAIN companies
         /\ op.kind \in {"setUserStatus", "setCompanyStatus"} => op.to \in Statuses
<1>0. /\ Emails \subseteq Known /\ Names \subseteq Known /\ Plates \subseteq Known
      /\ Nothing \in Known
  BY DEF Known
<1>a. ASSIGNABLE_COMPANY_ROLES \subseteq ROLES
  BY DEF ASSIGNABLE_COMPANY_ROLES, ROLES
<1>b. /\ DOMAIN users \subseteq Users /\ DOMAIN companies \subseteq Companies
      /\ DOMAIN vehicles \subseteq Vehicles
  BY DEF TypeInv, TypeOK
<1>1. CASE \E e \in Emails, r \in ASSIGNABLE_COMPANY_ROLES, k \in DOMAIN companies :
             op = Op("createUser", Nothing, e, r, k)
  BY <1>0, <1>a, <1>b, <1>1 DEF Op, Ops, OpKinds
<1>2. CASE \E u \in DOMAIN users, st \in Statuses :
             op = Op("setUserStatus", u, Nothing, Nothing, st)
  BY <1>0, <1>b, <1>2 DEF Op, Ops, OpKinds
<1>3. CASE \E n \in Names : op = Op("createCompany", Nothing, n, Nothing, Nothing)
  BY <1>0, <1>3 DEF Op, Ops, OpKinds
<1>4. CASE \E k \in DOMAIN companies, n \in Names :
             op = Op("updateCompany", k, n, Nothing, Nothing)
  BY <1>0, <1>b, <1>4 DEF Op, Ops, OpKinds
<1>5. CASE \E k \in DOMAIN companies, st \in Statuses :
             op = Op("setCompanyStatus", k, Nothing, Nothing, st)
  BY <1>0, <1>b, <1>5 DEF Op, Ops, OpKinds
<1>6. CASE \E n \in Plates : op = Op("createVehicle", Nothing, n, Nothing, Nothing)
  BY <1>0, <1>6 DEF Op, Ops, OpKinds
<1>7. CASE \E v \in DOMAIN vehicles, n \in Plates \cup {Nothing} :
             op = Op("updateVehicle", v, n, Nothing, Nothing)
  BY <1>0, <1>b, <1>7 DEF Op, Ops, OpKinds
<1>8. CASE \E v \in DOMAIN vehicles :
             op = Op("deactivateVehicle", v, Nothing, Nothing, Nothing)
  BY <1>0, <1>b, <1>8 DEF Op, Ops, OpKinds
<1>9. \/ \E e \in Emails, r \in ASSIGNABLE_COMPANY_ROLES, k \in DOMAIN companies :
           op = Op("createUser", Nothing, e, r, k)
      \/ \E u \in DOMAIN users, st \in Statuses :
           op = Op("setUserStatus", u, Nothing, Nothing, st)
      \/ \E n \in Names : op = Op("createCompany", Nothing, n, Nothing, Nothing)
      \/ \E k \in DOMAIN companies, n \in Names :
           op = Op("updateCompany", k, n, Nothing, Nothing)
      \/ \E k \in DOMAIN companies, st \in Statuses :
           op = Op("setCompanyStatus", k, Nothing, Nothing, st)
      \/ \E n \in Plates : op = Op("createVehicle", Nothing, n, Nothing, Nothing)
      \/ \E v \in DOMAIN vehicles, n \in Plates \cup {Nothing} :
           op = Op("updateVehicle", v, n, Nothing, Nothing)
      \/ \E v \in DOMAIN vehicles :
           op = Op("deactivateVehicle", v, Nothing, Nothing, Nothing)
  BY DEF Requested
<1>. QED
  BY <1>1, <1>2, <1>3, <1>4, <1>5, <1>6, <1>7, <1>8, <1>9

LEMMA DocumentsUntouched ==
  ASSUME TypeInv, UNCHANGED documents
  PROVE  DocumentsOK' /\ Kept
BY DEF TypeInv, TypeOK, ReferencesOK, DocumentsOK, Kept, documents

LEMMA UserInserted ==
  ASSUME TypeInv, NEW p \in Slots, insertUser(p)
  PROVE  DocumentsOK' /\ Kept
<1>. DEFINE op == request[p].op
            account == IF op.kind = "registerDriver" THEN Account(op.name, "driver", Nothing)
                       ELSE Account(op.name, op.role, op.to)
<1>1. CASE UNCHANGED users
  BY <1>1, DocumentsUntouched DEF insertUser, documents
<1>2. CASE \E u \in Users \ DOMAIN users : users' = With(users, u, account)
  <2>. PICK u \in Users \ DOMAIN users : users' = With(users, u, account)
    BY <1>2
  <2>1. op \in Ops /\ op.kind \in {"registerDriver", "createUser"}
    BY DEF insertUser, TypeInv, TypeOK
  <2>2. op.kind = "createUser" => op.role \in ASSIGNABLE_COMPANY_ROLES /\ op.to \in DOMAIN companies
    BY DEF TypeInv, ReferencesOK
  <2>3. /\ account \in UserDocs
        /\ IF account.role \in COMPANY_SCOPED_ROLES THEN account.company \in DOMAIN companies
           ELSE account.company = Nothing
    <3>1. CASE op.kind = "registerDriver"
      BY <2>1, <3>1 DEF Account, UserDocs, Ops, ROLES, Statuses, COMPANY_SCOPED_ROLES
    <3>2. CASE op.kind = "createUser"
      BY <2>1, <2>2, <3>2 DEF Account, UserDocs, Ops, ROLES, Statuses, COMPANY_SCOPED_ROLES,
           ASSIGNABLE_COMPANY_ROLES, TypeInv, TypeOK
    <3>. QED BY <2>1, <3>1, <3>2
  <2>. HIDE DEF account
  <2>4. UNCHANGED <<companies, vehicles>>
    BY DEF insertUser
  <2>5. /\ DOMAIN users' = DOMAIN users \cup {u}
        /\ users'[u] = account
        /\ \A v \in DOMAIN users : users'[v] = users[v]
        /\ users' \in [DOMAIN users' -> UserDocs]
    BY <2>3 DEF With, TypeInv, TypeOK
  <2>. QED
    BY <2>3, <2>4, <2>5 DEF DocumentsOK, Kept, TypeInv, TypeOK, ReferencesOK
<1>. QED
  BY <1>1, <1>2 DEF insertUser

LEMMA UserStatusSet ==
  ASSUME TypeInv, NEW p \in Slots, setUserStatus(p)
  PROVE  DocumentsOK' /\ Kept
<1>1. CASE UNCHANGED users
  BY <1>1, DocumentsUntouched DEF setUserStatus, documents
<1>2. CASE users' = [users EXCEPT ![request[p].op.id].status = request[p].op.to]
  <2>1. request[p].op.to \in Statuses
    BY DEF setUserStatus, TypeInv, ReferencesOK
  <2>2. /\ DOMAIN users' = DOMAIN users
        /\ users' \in [DOMAIN users -> UserDocs]
        /\ \A u \in DOMAIN users : users'[u].role = users[u].role
                                   /\ users'[u].company = users[u].company
    <3>. DEFINE id == request[p].op.id
                st == request[p].op.to
    <3>1. users' = [users EXCEPT ![id] = [users[id] EXCEPT !.status = st]]
      BY <1>2
    <3>2. st \in Statuses /\ users \in [DOMAIN users -> UserDocs]
      BY <2>1 DEF TypeInv, TypeOK
    <3>. HIDE DEF id, st
    <3>3. CASE id \in DOMAIN users
      <4>1. /\ [users[id] EXCEPT !.status = st] \in UserDocs
            /\ [users[id] EXCEPT !.status = st].role = users[id].role
            /\ [users[id] EXCEPT !.status = st].company = users[id].company
        BY <3>2, <3>3 DEF UserDocs
      <4>. QED BY <3>1, <3>2, <3>3, <4>1
    <3>4. CASE id \notin DOMAIN users
      BY <3>1, <3>2, <3>4
    <3>. QED BY <3>3, <3>4
  <2>3. UNCHANGED <<companies, vehicles>>
    BY DEF setUserStatus
  <2>. QED
    BY <2>2, <2>3 DEF DocumentsOK, Kept, TypeInv, TypeOK, ReferencesOK
<1>. QED
  BY <1>1, <1>2 DEF setUserStatus

\* Companies and cars: accounts stay as they are.
LEMMA CompanyChanged ==
  ASSUME TypeInv, UNCHANGED <<users, vehicles>>,
         DOMAIN companies \subseteq DOMAIN companies', DOMAIN companies' \subseteq Companies,
         companies' \in [DOMAIN companies' -> CompanyDocs]
  PROVE  DocumentsOK' /\ Kept
BY DEF DocumentsOK, Kept, TypeInv, TypeOK, ReferencesOK

LEMMA CompanyWritten ==
  ASSUME TypeInv, NEW p \in Slots, writeCompany(p)
  PROVE  DocumentsOK' /\ Kept
<1>. DEFINE op == request[p].op
<1>1. op \in Ops /\ companies \in [DOMAIN companies -> CompanyDocs]
  BY DEF TypeInv, TypeOK
<1>2. CASE UNCHANGED companies
  BY <1>2, DocumentsUntouched DEF writeCompany, documents
<1>3. CASE \E k \in Companies \ DOMAIN companies :
             companies' = With(companies, k, [name |-> op.name, status |-> "active"])
  <2>1. [name |-> op.name, status |-> "active"] \in CompanyDocs
    BY <1>1 DEF Ops, CompanyDocs, Statuses
  <2>. QED
    BY <1>3, <2>1, CompanyChanged DEF With, writeCompany, TypeInv, TypeOK
<1>4. CASE companies' = [companies EXCEPT ![op.id].name = op.name]
  <2>. DEFINE d == [companies[op.id] EXCEPT !.name = op.name]
  <2>1. companies' = [companies EXCEPT ![op.id] = d]
    BY <1>4
  <2>2. op.id \in DOMAIN companies => d \in CompanyDocs
    BY <1>1 DEF Ops, CompanyDocs
  <2>. HIDE DEF d
  <2>3. /\ DOMAIN companies' = DOMAIN companies
        /\ companies' \in [DOMAIN companies -> CompanyDocs]
    BY <1>1, <2>1, <2>2
  <2>4. DOMAIN companies \subseteq Companies /\ UNCHANGED <<users, vehicles>>
    BY DEF writeCompany, TypeInv, TypeOK
  <2>. QED
    BY <2>3, <2>4, CompanyChanged
<1>. QED
  BY <1>2, <1>3, <1>4 DEF writeCompany

LEMMA CompanyStatusSet ==
  ASSUME TypeInv, NEW p \in Slots, setCompanyStatus(p)
  PROVE  DocumentsOK' /\ Kept
<1>. DEFINE op == request[p].op
            d == [companies[op.id] EXCEPT !.status = op.to]
<1>1. op.to \in Statuses /\ companies \in [DOMAIN companies -> CompanyDocs]
  BY DEF setCompanyStatus, TypeInv, TypeOK, ReferencesOK
<1>2. companies' = [companies EXCEPT ![op.id] = d]
  BY DEF setCompanyStatus
<1>3. op.id \in DOMAIN companies => d \in CompanyDocs
  BY <1>1 DEF CompanyDocs
<1>. HIDE DEF d
<1>4. /\ DOMAIN companies' = DOMAIN companies
      /\ companies' \in [DOMAIN companies -> CompanyDocs]
  BY <1>1, <1>2, <1>3
<1>5. DOMAIN companies \subseteq Companies /\ UNCHANGED <<users, vehicles>>
  BY DEF setCompanyStatus, TypeInv, TypeOK
<1>. QED
  BY <1>4, <1>5, CompanyChanged

LEMMA VehicleWritten ==
  ASSUME TypeInv, NEW p \in Slots, writeVehicle(p)
  PROVE  DocumentsOK' /\ Kept
<1>. DEFINE op == request[p].op
<1>1. op \in Ops /\ request[p].by \in Users
  BY DEF writeVehicle, TypeInv, TypeOK, ReferencesOK
<1>2. DOMAIN vehicles' \subseteq Vehicles /\ vehicles' \in [DOMAIN vehicles' -> VehicleDocs]
  <2>1. CASE UNCHANGED vehicles
    BY <2>1 DEF TypeInv, TypeOK
  <2>2. CASE \E v \in Vehicles \ DOMAIN vehicles :
               vehicles' = With(vehicles, v, [owner |-> request[p].by, plate |-> op.name,
                                              isActive |-> TRUE])
    BY <1>1, <2>2 DEF With, TypeInv, TypeOK, VehicleDocs, Ops
  <2>3. CASE \E on \in BOOLEAN :
               vehicles' = [vehicles EXCEPT ![op.id].plate = IF Named(op) THEN op.name ELSE @,
                                            ![op.id].isActive = on]
    <3>. PICK on \in BOOLEAN :
           vehicles' = [vehicles EXCEPT ![op.id].plate = IF Named(op) THEN op.name ELSE @,
                                        ![op.id].isActive = on]
      BY <2>3
    <3>. DEFINE plate == IF Named(op) THEN op.name ELSE vehicles[op.id].plate
                d == [[vehicles[op.id] EXCEPT !.plate = plate] EXCEPT !.isActive = on]
    <3>1. vehicles' = [vehicles EXCEPT ![op.id] = d]
      <4>1. CASE op.id \in DOMAIN vehicles
        BY <4>1
      <4>2. CASE op.id \notin DOMAIN vehicles
        BY <4>2
      <4>. QED BY <4>1, <4>2
    <3>2. op.id \in DOMAIN vehicles => d \in VehicleDocs
      <4>. SUFFICES ASSUME op.id \in DOMAIN vehicles PROVE d \in VehicleDocs
        OBVIOUS
      <4>1. vehicles[op.id] \in VehicleDocs
        BY DEF TypeInv, TypeOK
      <4>2. plate \in Known
        BY <1>1, <4>1 DEF VehicleDocs, Ops
      <4>. HIDE DEF plate
      <4>. QED BY <4>1, <4>2 DEF VehicleDocs
    <3>. HIDE DEF d
    <3>3. /\ DOMAIN vehicles \subseteq Vehicles
          /\ vehicles \in [DOMAIN vehicles -> VehicleDocs]
      BY DEF TypeInv, TypeOK
    <3>4. /\ DOMAIN vehicles' = DOMAIN vehicles
          /\ vehicles' \in [DOMAIN vehicles -> VehicleDocs]
      BY <3>1, <3>2, <3>3
    <3>. QED BY <3>3, <3>4
  <2>4. CASE vehicles' = [vehicles EXCEPT ![op.id].isActive = FALSE]
    BY <2>4 DEF TypeInv, TypeOK, VehicleDocs
  <2>. QED BY <2>1, <2>2, <2>3, <2>4 DEF writeVehicle
<1>. QED
  BY <1>2 DEF writeVehicle, DocumentsOK, Kept, TypeInv, TypeOK, ReferencesOK

-----------------------------------------------------------------------------
(* Requests and connections *)

Stages == {"idle", "authenticate", "company", "check", "write", "disconnect"}

\* What ReferencesOK says of the request in one slot.
SlotOK(p) ==
  LET r == request[p] IN
  /\ r.by \in DOMAIN users \cup {Nobody}
  /\ r.by = Nobody => r.step \notin {"authenticate", "company", "disconnect"}
                     /\ r.op.kind \in {"none", "registerDriver"}
  /\ r.op.kind = "createUser" => r.op.role \in ASSIGNABLE_COMPANY_ROLES
                                /\ r.op.to \in DOMAIN companies
  /\ r.op.kind \in {"setUserStatus", "setCompanyStatus"} => r.op.to \in Statuses
  /\ r.step = "company" => AsksForCompany(r.op, r.by)
  /\ r.step = "disconnect" => r.op.kind \in {"setUserStatus", "setCompanyStatus"}

RequestsOK ==
  /\ request \in [Slots -> [step : Stages, by : Users \cup {Nobody}, op : Ops]]
  /\ \A p \in Slots : SlotOK(p)

SocketsOK ==
  /\ sockets \in [Sockets -> [step : {"none", "user", "company", "connected"},
                              user : Users \cup {Nobody}, raced : BOOLEAN]]
  /\ \A s \in Sockets : sockets[s].step # "none" =>
       /\ sockets[s].user \in DOMAIN users
       /\ sockets[s].step = "company" => users[sockets[s].user].role \in COMPANY_SCOPED_ROLES

LEMMA Parts ==
  TypeInv <=> DocumentsOK /\ RequestsOK /\ requests \in 0..MaxRequests /\ SocketsOK
BY DEF TypeInv, TypeOK, ReferencesOK, DocumentsOK, RequestsOK, SlotOK, SocketsOK, Stages

LEMMA IdleFits ==
  /\ Idle.step = "idle" /\ Idle.by = Nobody /\ Idle.op.kind = "none"
  /\ Idle \in [step : Stages, by : Users \cup {Nobody}, op : Ops]
<1>1. Op("none", Nothing, Nothing, Nothing, Nothing) \in Ops
  BY DEF Op, Ops, OpKinds, Known
<1>. QED
  BY <1>1 DEF Idle, Op, Stages

\* A request that stays as it is stays well formed while documents are kept.
LEMMA SlotStays ==
  ASSUME RequestsOK, Kept, NEW p \in Slots, request'[p] = request[p]
  PROVE  SlotOK(p)'
BY DEF RequestsOK, SlotOK, Kept, AsksForCompany

LEMMA RequestEnded ==
  ASSUME RequestsOK, Kept, NEW p \in Slots, Ends(p)
  PROVE  RequestsOK'
<1>1. /\ request' \in [Slots -> [step : Stages, by : Users \cup {Nobody}, op : Ops]]
      /\ request'[p] = Idle
      /\ \A q \in Slots \ {p} : request'[q] = request[q]
  BY IdleFits DEF RequestsOK, Ends
<1>2. SlotOK(p)'
  BY <1>1, IdleFits DEF SlotOK
<1>. QED
  BY <1>1, <1>2, SlotStays DEF RequestsOK

LEMMA RequestMoved ==
  ASSUME RequestsOK, Kept, NEW p \in Slots, NEW step \in {"company", "check", "write", "disconnect"},
         Goes(p, step),
         step \in {"company", "disconnect"} => request[p].by # Nobody,
         step = "company" => AsksForCompany(request[p].op, request[p].by),
         step = "disconnect" => request[p].op.kind \in {"setUserStatus", "setCompanyStatus"}
  PROVE  RequestsOK'
<1>1. /\ request' \in [Slots -> [step : Stages, by : Users \cup {Nobody}, op : Ops]]
      /\ request'[p].step = step
      /\ request'[p].by = request[p].by
      /\ request'[p].op = request[p].op
      /\ \A q \in Slots \ {p} : request'[q] = request[q]
  BY DEF RequestsOK, Goes, Stages
<1>2. SlotOK(p)'
  BY <1>1 DEF RequestsOK, SlotOK, Kept, AsksForCompany
<1>. QED
  BY <1>1, <1>2, SlotStays DEF RequestsOK

LEMMA SocketsStay ==
  ASSUME SocketsOK, Kept, UNCHANGED sockets
  PROVE  SocketsOK'
BY DEF SocketsOK, Kept

LEMMA RequestsStay ==
  ASSUME RequestsOK, Kept, UNCHANGED request
  PROVE  RequestsOK'
BY SlotStays DEF RequestsOK

-----------------------------------------------------------------------------
(* Types and references *)

LEMMA InitTyped == Init => TypeInv
<1>. SUFFICES ASSUME Init PROVE TypeInv
  OBVIOUS
<1>1. DocumentsOK
  <2>1. /\ \A u \in DOMAIN Accounts : Accounts[u] \in UserDocs
        /\ \A k \in DOMAIN Operators : Operators[k] \in CompanyDocs
    BY AccessAssumption, StartAssumption DEF UserDocs, CompanyDocs, Known
  <2>2. /\ users \in [DOMAIN users -> UserDocs]
        /\ companies \in [DOMAIN companies -> CompanyDocs]
    BY <2>1, StartAssumption DEF Init
  <2>3. DOMAIN vehicles = {} /\ vehicles \in [{} -> VehicleDocs]
    BY DEF Init
  <2>. QED
    BY <2>2, <2>3, AccessAssumption, StartAssumption DEF Init, DocumentsOK
<1>2. RequestsOK
  BY IdleFits DEF Init, RequestsOK, SlotOK
<1>3. requests \in 0..MaxRequests
  BY AccessAssumption DEF Init
<1>4. SocketsOK
  BY DEF Init, SocketsOK, NoSocket
<1>. QED
  BY <1>1, <1>2, <1>3, <1>4, Parts

LEMMA RequestEntered ==
  ASSUME RequestsOK, Kept, NEW p \in Slots, Enters(p, request[p])
  PROVE  RequestsOK'
BY RequestEnded, RequestMoved DEF Enters

LEMMA ArriveTyped ==
  ASSUME TypeInv, NEW p \in Slots,
         \/ \E u \in DOMAIN users, op \in Requested : Arrive(p, u, op)
         \/ \E e \in Emails : ArriveRegistration(p, e)
  PROVE  TypeInv'
<1>1. /\ RequestsOK /\ SocketsOK /\ requests \in 0..MaxRequests
      /\ UNCHANGED <<documents, sockets>>
      /\ requests' = requests + 1 /\ requests < MaxRequests
  BY Parts DEF Arrive, ArriveRegistration
<1>2. DocumentsOK' /\ Kept
  BY <1>1, DocumentsUntouched
<1>3. RequestsOK'
  <2>1. CASE \E u \in DOMAIN users, op \in Requested : Arrive(p, u, op)
    <3>. PICK u \in DOMAIN users, op \in Requested : Arrive(p, u, op)
      BY <2>1
    <3>. DEFINE r == [step |-> "authenticate", by |-> u, op |-> op]
    <3>1. /\ op \in Ops /\ op.kind # "none" /\ op.kind # "registerDriver"
          /\ op.kind = "createUser" => /\ op.role \in ASSIGNABLE_COMPANY_ROLES
                                       /\ op.to \in DOMAIN companies
          /\ op.kind \in {"setUserStatus", "setCompanyStatus"} => op.to \in Statuses
      BY RequestedOps
    <3>2. u \in Users /\ u # Nobody
      BY AccessAssumption DEF TypeInv, TypeOK
    <3>3. r \in [step : Stages, by : Users \cup {Nobody}, op : Ops]
      BY <3>1, <3>2 DEF Stages
    <3>4. /\ request' \in [Slots -> [step : Stages, by : Users \cup {Nobody}, op : Ops]]
          /\ request'[p] = r
          /\ \A q \in Slots \ {p} : request'[q] = request[q]
      BY <1>1, <3>3 DEF Arrive, RequestsOK
    <3>5. SlotOK(p)'
      BY <1>2, <3>1, <3>2, <3>4 DEF SlotOK, Kept
    <3>. QED
      BY <1>1, <1>2, <3>4, <3>5, SlotStays DEF RequestsOK
  <2>2. CASE \E e \in Emails : ArriveRegistration(p, e)
    <3>. PICK e \in Emails : ArriveRegistration(p, e)
      BY <2>2
    <3>. DEFINE op == Op("registerDriver", Nothing, e, Nothing, Nothing)
                r == [step |-> "check", by |-> Nobody, op |-> op]
    <3>1. op \in Ops /\ op.kind = "registerDriver"
      BY DEF Op, Ops, OpKinds, Known
    <3>. HIDE DEF op
    <3>2. r \in [step : Stages, by : Users \cup {Nobody}, op : Ops]
      BY <3>1 DEF Stages
    <3>3. /\ request' \in [Slots -> [step : Stages, by : Users \cup {Nobody}, op : Ops]]
          /\ request'[p] = r
          /\ \A q \in Slots \ {p} : request'[q] = request[q]
      BY <1>1, <3>2 DEF ArriveRegistration, RequestsOK, op
    <3>4. SlotOK(p)'
      BY <1>2, <3>1, <3>3 DEF SlotOK
    <3>. QED
      BY <1>1, <1>2, <3>3, <3>4, SlotStays DEF RequestsOK
  <2>. QED BY <2>1, <2>2
<1>4. SocketsOK'
  BY <1>1, <1>2, SocketsStay
<1>5. (requests \in 0..MaxRequests)'
  BY <1>1, AccessAssumption
<1>. QED
  BY <1>2, <1>3, <1>4, <1>5, Parts, PTL

\* A step of a handler that leaves documents typed and kept leaves all of it so.
LEMMA HandledTyped ==
  ASSUME TypeInv, NEW p \in Slots, Handled(p)
  PROVE  TypeInv' /\ Kept
<1>1. /\ RequestsOK /\ SocketsOK /\ requests \in 0..MaxRequests
  BY Parts
<1>2. UNCHANGED requests
  BY DEF Handled, authenticate, requireActiveCompany, checkClash, insertUser, setUserStatus,
     writeCompany, setCompanyStatus, writeVehicle, disconnect
<1>3. DocumentsOK' /\ Kept
  BY DocumentsUntouched, UserInserted, UserStatusSet, CompanyWritten, CompanyStatusSet,
     VehicleWritten
     DEF Handled, authenticate, requireActiveCompany, checkClash, disconnect
<1>4. RequestsOK'
  <2>. DEFINE r == request[p]
  <2>1. CASE authenticate(p)
    <3>1. r.by # Nobody
      BY <1>1, <2>1 DEF authenticate, RequestsOK, SlotOK
    <3>. QED
      BY <1>1, <1>3, <2>1, <3>1, RequestEnded, RequestEntered, RequestMoved DEF authenticate
  <2>2. CASE requireActiveCompany(p)
    BY <1>1, <1>3, <2>2, RequestEnded, RequestEntered DEF requireActiveCompany
  <2>3. CASE checkClash(p)
    BY <1>1, <1>3, <2>3, RequestEnded, RequestMoved DEF checkClash
  <2>4. CASE insertUser(p)
    BY <1>1, <1>3, <2>4, RequestEnded DEF insertUser
  <2>5. CASE setUserStatus(p) \/ setCompanyStatus(p)
    <3>1. r.by # Nobody /\ r.op.kind \in {"setUserStatus", "setCompanyStatus"}
      BY <1>1, <2>5 DEF setUserStatus, setCompanyStatus, RequestsOK, SlotOK
    <3>. QED
      BY <1>1, <1>3, <2>5, <3>1, RequestEnded, RequestMoved DEF setUserStatus, setCompanyStatus
  <2>6. CASE writeCompany(p)
    BY <1>1, <1>3, <2>6, RequestEnded DEF writeCompany
  <2>7. CASE writeVehicle(p)
    BY <1>1, <1>3, <2>7, RequestEnded DEF writeVehicle
  <2>8. CASE disconnect(p)
    BY <1>1, <1>3, <2>8, RequestEnded DEF disconnect
  <2>. QED
    BY <2>1, <2>2, <2>3, <2>4, <2>5, <2>6, <2>7, <2>8 DEF Handled
<1>5. SocketsOK'
  <2>1. CASE disconnect(p)
    BY <1>1, <1>3, <2>1 DEF disconnect, SocketsOK, Kept, NoSocket
  <2>2. CASE UNCHANGED sockets
    BY <1>1, <1>3, <2>2, SocketsStay
  <2>. QED
    BY <2>1, <2>2 DEF Handled, authenticate, requireActiveCompany, checkClash, insertUser,
       setUserStatus, writeCompany, setCompanyStatus, writeVehicle
<1>6. (requests \in 0..MaxRequests)'
  BY <1>1, <1>2
<1>7. TypeInv'
  BY <1>3, <1>4, <1>5, <1>6, Parts, PTL
<1>. QED
  BY <1>3, <1>7

LEMMA SocketTyped ==
  ASSUME TypeInv, NEW s \in Sockets,
         \/ \E u \in DOMAIN users : Dial(s, u)
         \/ HandshakeUser(s) \/ HandshakeCompany(s) \/ Hangup(s)
  PROVE  TypeInv' /\ Kept
<1>1. /\ RequestsOK /\ SocketsOK /\ requests \in 0..MaxRequests
      /\ UNCHANGED <<documents, request, requests>>
  BY Parts DEF Dial, HandshakeUser, HandshakeCompany, Hangup
<1>2. DocumentsOK' /\ Kept
  BY <1>1, DocumentsUntouched
<1>3. RequestsOK'
  BY <1>1, <1>2, RequestsStay
<1>4. SocketsOK'
  <2>0. DOMAIN users \subseteq Users
    BY DEF TypeInv, TypeOK
  <2>1. CASE \E u \in DOMAIN users : Dial(s, u)
    BY <1>1, <1>2, <2>0, <2>1 DEF Dial, SocketsOK, Kept, NoSocket
  <2>2. CASE HandshakeUser(s)
    BY <1>1, <1>2, <2>2 DEF HandshakeUser, SocketsOK, Kept, NoSocket
  <2>3. CASE HandshakeCompany(s)
    BY <1>1, <1>2, <2>3 DEF HandshakeCompany, SocketsOK, Kept, NoSocket
  <2>4. CASE Hangup(s)
    BY <1>1, <1>2, <2>4 DEF Hangup, SocketsOK, Kept, NoSocket
  <2>. QED BY <2>1, <2>2, <2>3, <2>4
<1>5. (requests \in 0..MaxRequests)'
  BY <1>1
<1>6. TypeInv'
  BY <1>2, <1>3, <1>4, <1>5, Parts, PTL
<1>. QED
  BY <1>2, <1>6

LEMMA NextTyped == TypeInv /\ [Next]_vars => TypeInv'
<1>. SUFFICES ASSUME TypeInv, [Next]_vars PROVE TypeInv'
  OBVIOUS
<1>1. CASE Next
  BY <1>1, ArriveTyped, HandledTyped, SocketTyped DEF Next, Step
<1>2. CASE UNCHANGED vars
  BY <1>2 DEF vars, documents, TypeInv, TypeOK, ReferencesOK, AsksForCompany
<1>. QED
  BY <1>1, <1>2

\* Documents, requests and connections keep their types, and whatever refers to an
\* account or a company refers to one that exists (the models' ref fields).
THEOREM TypeCorrect == Spec => [](TypeOK /\ ReferencesOK)
<1>1. Spec => []TypeInv
  BY InitTyped, NextTyped, PTL DEF Spec
<1>. QED
  BY <1>1, PTL DEF TypeInv

-----------------------------------------------------------------------------
(* Requests that come after a suspension *)

\* Whoever is listed as late is still barred, for the reason it is listed under.
LateStillBarred == \A why \in Reasons : late[why] \subseteq BarredSlots(why)

LateInv == TypeInv /\ LateStillBarred /\ LateRequestsRefused

\* A new request stands at the first middleware; a registration has no sender.
LEMMA ArrivalsWait ==
  ASSUME TypeInv, NEW p \in Slots, request[p] = Idle, Next,
         NEW why \in Reasons, Barred(why, request[p])'
  PROVE  request'[p].step = "authenticate"
<1>1. request \in [Slots -> [step : Stages, by : Users \cup {Nobody}, op : Ops]]
  BY DEF TypeInv, TypeOK, Stages
<1>2. request'[p].by # Nobody
  BY DEF Barred
<1>3. request'[p] # Idle
  BY <1>2, IdleFits
<1>4. ~ Handled(p)
  BY IdleFits DEF Handled, authenticate, requireActiveCompany, checkClash, insertUser,
     setUserStatus, writeCompany, setCompanyStatus, writeVehicle, disconnect
<1>5. ASSUME NEW q \in Slots, q # p, Handled(q)
      PROVE  request'[p] = request[p]
  BY <1>1, <1>5 DEF Handled, authenticate, requireActiveCompany, checkClash, insertUser,
     setUserStatus, writeCompany, setCompanyStatus, writeVehicle, disconnect, Enters, Goes, Ends
<1>6. ASSUME NEW q \in Slots,
             \/ \E u \in DOMAIN users, op \in Requested : Arrive(q, u, op)
             \/ \E e \in Emails : ArriveRegistration(q, e)
      PROVE  \/ request'[p] = request[p]
             \/ request'[p].step = "authenticate" \/ request'[p].by = Nobody
  BY <1>1, <1>6 DEF Arrive, ArriveRegistration
<1>7. ASSUME NEW s \in Sockets,
             \/ \E u \in DOMAIN users : Dial(s, u)
             \/ HandshakeUser(s) \/ HandshakeCompany(s) \/ Hangup(s)
      PROVE  request'[p] = request[p]
  BY <1>7 DEF Dial, HandshakeUser, HandshakeCompany, Hangup
<1>. QED
  BY <1>2, <1>3, <1>4, <1>5, <1>6, <1>7 DEF Next, Step

\* A middleware that reads a suspension ends the request.
LEMMA BarredGoNowhere ==
  ASSUME TypeInv, NEW p \in Slots, Next, NEW why \in Reasons, Barred(why, request[p]),
         Barred(why, request[p])',
         IF why = "account" THEN request[p].step = "authenticate"
         ELSE request[p].step \in {"authenticate", "company"}
  PROVE  IF why = "account" THEN request'[p].step = "authenticate"
         ELSE request'[p].step \in {"authenticate", "company"}
<1>1. request \in [Slots -> [step : Stages, by : Users \cup {Nobody}, op : Ops]]
  BY DEF TypeInv, TypeOK, Stages
<1>2. request'[p].by # Nobody
  BY DEF Barred
<1>3. ~ Ends(p)
  BY <1>1, <1>2, IdleFits DEF Ends
<1>4. request[p] # Idle
  BY IdleFits
<1>5. CASE Handled(p)
  <2>1. authenticate(p) \/ requireActiveCompany(p)
    BY <1>5 DEF Handled, checkClash, insertUser, setUserStatus, writeCompany, setCompanyStatus,
       writeVehicle, disconnect
  <2>2. CASE authenticate(p)
    <3>1. why # "account"
      BY <1>3, <2>2 DEF authenticate, Authenticated, Barred
    <3>2. AsksForCompany(request[p].op, request[p].by)
      BY <3>1 DEF Barred
    <3>3. Goes(p, "company")
      BY <1>3, <2>2, <3>2 DEF authenticate
    <3>. QED
      BY <1>1, <3>1, <3>3 DEF Goes
  <2>3. CASE requireActiveCompany(p)
    <3>1. why # "account"
      BY <2>3 DEF requireActiveCompany
    <3>2. companies[users[request[p].by].company].status # "active"
      BY <3>1 DEF Barred
    <3>. QED
      BY <1>3, <2>3, <3>2 DEF requireActiveCompany
  <2>. QED BY <2>1, <2>2, <2>3
<1>6. ASSUME NEW q \in Slots, q # p, Handled(q)
      PROVE  request'[p] = request[p]
  BY <1>1, <1>6 DEF Handled, authenticate, requireActiveCompany, checkClash, insertUser,
     setUserStatus, writeCompany, setCompanyStatus, writeVehicle, disconnect, Enters, Goes, Ends
<1>7. ASSUME NEW q \in Slots,
             \/ \E u \in DOMAIN users, op \in Requested : Arrive(q, u, op)
             \/ \E e \in Emails : ArriveRegistration(q, e)
      PROVE  request'[p] = request[p]
  BY <1>1, <1>4, <1>7 DEF Arrive, ArriveRegistration
<1>8. ASSUME NEW s \in Sockets,
             \/ \E u \in DOMAIN users : Dial(s, u)
             \/ HandshakeUser(s) \/ HandshakeCompany(s) \/ Hangup(s)
      PROVE  request'[p] = request[p]
  BY <1>8 DEF Dial, HandshakeUser, HandshakeCompany, Hangup
<1>. QED
  BY <1>5, <1>6, <1>7, <1>8 DEF Next, Step

LEMMA LateStep == LateInv /\ [Next]_vars => LateInv'
<1>. SUFFICES ASSUME LateInv, [Next]_vars PROVE LateInv'
  OBVIOUS
<1>1. TypeInv'
  BY NextTyped DEF LateInv
<1>2. CASE Next
  <2>1. \A why \in Reasons :
          late'[why] = {p \in BarredSlots(why)' : p \in late[why] \/ request[p] = Idle}
    BY <1>2 DEF Next
  <2>2. LateStillBarred'
    BY <2>1 DEF LateStillBarred
  <2>3. ASSUME NEW why \in Reasons, NEW p \in late'[why]
        PROVE  IF why = "account" THEN request'[p].step = "authenticate"
               ELSE request'[p].step \in {"authenticate", "company"}
    <3>1. p \in Slots /\ Barred(why, request[p])'
      BY <2>1 DEF BarredSlots
    <3>2. CASE p \in late[why]
      <4>1. Barred(why, request[p])
        BY <3>2 DEF LateInv, LateStillBarred, BarredSlots
      <4>2. IF why = "account" THEN request[p].step = "authenticate"
            ELSE request[p].step \in {"authenticate", "company"}
        BY <3>2 DEF LateInv, LateRequestsRefused, Reasons
      <4>. QED
        BY <1>2, <3>1, <4>1, <4>2, BarredGoNowhere DEF LateInv
    <3>3. CASE request[p] = Idle
      BY <1>2, <3>1, <3>3, ArrivalsWait DEF LateInv
    <3>. QED BY <2>1, <3>2, <3>3
  <2>4. LateRequestsRefused'
    BY <2>3 DEF LateRequestsRefused, Reasons
  <2>. QED BY <1>1, <2>2, <2>4 DEF LateInv
<1>3. CASE UNCHANGED vars
  BY <1>1, <1>3 DEF LateInv, LateStillBarred, LateRequestsRefused, BarredSlots, Barred,
     AsksForCompany, vars, documents
<1>. QED
  BY <1>2, <1>3

\* A request that comes once its sender, or the sender's company, is suspended gets
\* no further than the middleware that reads so, for any number of requests at once
\* and whatever else changes meanwhile (auth.middleware.ts:48,
\* companyScope.middleware.ts:43).
THEOREM LateRefused == Spec => []LateRequestsRefused
<1>1. Init => LateInv
  <2>. SUFFICES ASSUME Init PROVE LateInv
    OBVIOUS
  <2>1. \A why \in Reasons : late[why] = {}
    BY DEF Init
  <2>. QED
    BY <2>1, InitTyped DEF LateInv, LateStillBarred, LateRequestsRefused, Reasons
<1>2. LateInv => LateRequestsRefused
  BY DEF LateInv
<1>. QED
  BY <1>1, <1>2, LateStep, PTL DEF Spec

-----------------------------------------------------------------------------
(* Live connections and suspensions *)

\* The rooms of suspensions that have been written and have yet to cut theirs.
PendingRooms == {RoomOf(request[p].op) : p \in {q \in Slots : request[q].step = "disconnect"}}

Operator(u) == users[u].role \in COMPANY_SCOPED_ROLES

\* A connection whose handshake has read the account and that no suspension found
\* half open: if the account is barred now, somebody is about to cut its room.
CutSoon(s) ==
  LET c == sockets[s] IN
  ~ c.raced =>
    /\ c.step \in {"company", "connected"} /\ users[c.user].status # "active" =>
         userRoom(c.user) \in PendingRooms
    /\ c.step = "connected" /\ Operator(c.user)
         /\ companies[users[c.user].company].status # "active" =>
         companyRoom(users[c.user].company) \in PendingRooms

CutInv == TypeInv /\ \A s \in Sockets : CutSoon(s)

LEMMA CutSuffices == CutInv => SuspendedSocketsRaced
<1>. SUFFICES ASSUME CutInv, NEW s \in Sockets, sockets[s].step = "connected",
                     Suspended(sockets[s].user), ~ sockets[s].raced
              PROVE  ToBeCut(s)
  BY DEF SuspendedSocketsRaced
<1>. DEFINE u == sockets[s].user
<1>1. CutSoon(s)
  BY DEF CutInv
<1>2. CASE users[u].status # "active"
  BY <1>1, <1>2 DEF CutSoon, PendingRooms, ToBeCut, InRoom, roomsFor
<1>3. CASE Operator(u) /\ companies[users[u].company].status # "active"
  BY <1>1, <1>3 DEF CutSoon, PendingRooms, ToBeCut, InRoom, roomsFor, Operator, COMPANY_SCOPED_ROLES
<1>. QED
  BY <1>2, <1>3 DEF Suspended, Operator

\* Nothing but request p changes, and it is not one about to cut.
Elsewhere(p) ==
  /\ request[p].step # "disconnect"
  /\ \A q \in Slots : q # p => request'[q] = request[q]

\* Only the cut itself takes a pending one away.
LEMMA PendingStays ==
  ASSUME NEW p \in Slots, Elsewhere(p)
  PROVE  PendingRooms \subseteq PendingRooms'
BY DEF PendingRooms, Elsewhere, RoomOf, userRoom, companyRoom

LEMMA HandledElsewhere ==
  ASSUME TypeInv, NEW p \in Slots,
         \/ Handled(p) /\ ~ disconnect(p)
         \/ \E u \in DOMAIN users, op \in Requested : Arrive(p, u, op)
         \/ \E e \in Emails : ArriveRegistration(p, e)
  PROVE  Elsewhere(p) /\ UNCHANGED sockets
<1>1. request \in [Slots -> [step : Stages, by : Users \cup {Nobody}, op : Ops]]
  BY DEF TypeInv, TypeOK, Stages
<1>. QED
  BY <1>1, IdleFits DEF Elsewhere, Handled, authenticate, requireActiveCompany, checkClash,
     insertUser, setUserStatus, writeCompany, setCompanyStatus, writeVehicle, Enters, Goes, Ends,
     Arrive, ArriveRegistration

\* While connections stay, whoever is newly suspended is about to be cut.
LEMMA CutStays ==
  ASSUME CutInv, NEW p \in Slots, Elsewhere(p), UNCHANGED sockets, Kept, NEW s \in Sockets,
         \A u \in DOMAIN users : users'[u].status # "active" =>
           users[u].status # "active" \/ userRoom(u) \in PendingRooms',
         \A k \in DOMAIN companies : companies'[k].status # "active" =>
           companies[k].status # "active" \/ companyRoom(k) \in PendingRooms'
  PROVE  CutSoon(s)'
<1>1. CutSoon(s)
  BY DEF CutInv
<1>2. PendingRooms \subseteq PendingRooms'
  BY PendingStays
<1>3. sockets[s].step # "none" =>
        /\ sockets[s].user \in DOMAIN users
        /\ Operator(sockets[s].user) => users[sockets[s].user].company \in DOMAIN companies
  BY DEF CutInv, TypeInv, ReferencesOK, Operator
<1>4. sockets'[s] = sockets[s]
  OBVIOUS
<1>. QED
  BY <1>1, <1>2, <1>3, <1>4 DEF CutSoon, Operator, Kept, userRoom, companyRoom

\* What a suspension writes is about to be cut; every other write leaves statuses be.
LEMMA StatusesWatched ==
  ASSUME TypeInv, NEW p \in Slots, Handled(p)
  PROVE  /\ \A u \in DOMAIN users : users'[u].status # "active" =>
              users[u].status # "active" \/ userRoom(u) \in PendingRooms'
         /\ \A k \in DOMAIN companies : companies'[k].status # "active" =>
              companies[k].status # "active" \/ companyRoom(k) \in PendingRooms'
<1>. DEFINE op == request[p].op
<1>1. /\ request \in [Slots -> [step : Stages, by : Users \cup {Nobody}, op : Ops]]
      /\ users \in [DOMAIN users -> UserDocs]
      /\ companies \in [DOMAIN companies -> CompanyDocs]
  BY DEF TypeInv, TypeOK, Stages
<1>2. Goes(p, "disconnect") => RoomOf(op) \in PendingRooms'
  <2>. SUFFICES ASSUME Goes(p, "disconnect") PROVE RoomOf(op) \in PendingRooms'
    OBVIOUS
  <2>1. request'[p].step = "disconnect" /\ request'[p].op = op
    BY <1>1 DEF Goes
  <2>. QED
    BY <2>1 DEF PendingRooms, RoomOf, userRoom, companyRoom
<1>3. CASE setUserStatus(p)
  <2>1. CASE UNCHANGED users
    BY <1>3, <2>1 DEF setUserStatus
  <2>2. CASE users' = [users EXCEPT ![op.id].status = op.to]
             /\ IF op.to # "active" THEN Goes(p, "disconnect") ELSE Ends(p)
    <3>1. RoomOf(op) = userRoom(op.id)
      BY <1>3 DEF setUserStatus, RoomOf
    <3>2. ASSUME NEW u \in DOMAIN users
          PROVE  users'[u].status = IF u = op.id THEN op.to ELSE users[u].status
      <4>1. CASE u = op.id
        BY <1>1, <2>2, <4>1 DEF UserDocs
      <4>2. CASE u # op.id
        BY <1>1, <2>2, <4>2
      <4>. QED BY <4>1, <4>2
    <3>. QED
      BY <1>2, <1>3, <2>2, <3>1, <3>2 DEF setUserStatus
  <2>. QED
    BY <1>3, <2>1, <2>2 DEF setUserStatus
<1>4. CASE setCompanyStatus(p)
  <2>1. RoomOf(op) = companyRoom(op.id)
    BY <1>4 DEF setCompanyStatus, RoomOf
  <2>2. ASSUME NEW k \in DOMAIN companies
        PROVE  companies'[k].status = IF k = op.id THEN op.to ELSE companies[k].status
    <3>1. CASE k = op.id
      BY <1>1, <1>4, <3>1 DEF CompanyDocs, setCompanyStatus
    <3>2. CASE k # op.id
      BY <1>1, <1>4, <3>2 DEF setCompanyStatus
    <3>. QED BY <3>1, <3>2
  <2>. QED
    BY <1>2, <1>4, <2>1, <2>2 DEF setCompanyStatus
<1>5. CASE insertUser(p)
  <2>1. \A u \in DOMAIN users : users'[u] = users[u]
    BY <1>5 DEF insertUser, With
  <2>. QED
    BY <1>5, <2>1 DEF insertUser
<1>6. CASE writeCompany(p)
  <2>1. ASSUME NEW k \in DOMAIN companies
        PROVE  companies'[k].status = companies[k].status
    <3>1. CASE UNCHANGED companies
      BY <3>1
    <3>2. CASE \E c \in Companies \ DOMAIN companies :
                 companies' = With(companies, c, [name |-> op.name, status |-> "active"])
      BY <3>2 DEF With
    <3>3. CASE companies' = [companies EXCEPT ![op.id].name = op.name]
      <4>1. CASE k = op.id
        BY <1>1, <3>3, <4>1 DEF CompanyDocs
      <4>2. CASE k # op.id
        BY <1>1, <3>3, <4>2
      <4>. QED BY <4>1, <4>2
    <3>. QED BY <1>6, <3>1, <3>2, <3>3 DEF writeCompany
  <2>. QED
    BY <1>6, <2>1 DEF writeCompany
<1>7. CASE UNCHANGED <<users, companies>>
  BY <1>7
<1>. QED
  BY <1>3, <1>4, <1>5, <1>6, <1>7 DEF Handled, authenticate, requireActiveCompany, checkClash,
     writeVehicle, disconnect, documents

\* A cut takes the room's listeners off the server, and marks those on their way in.
LEMMA CutDone ==
  ASSUME CutInv, NEW p \in Slots, disconnect(p), NEW s \in Sockets
  PROVE  CutSoon(s)'
<1>. DEFINE room == RoomOf(request[p].op)
<1>1. /\ request \in [Slots -> [step : Stages, by : Users \cup {Nobody}, op : Ops]]
      /\ sockets \in [Sockets -> [step : {"none", "user", "company", "connected"},
                                  user : Users \cup {Nobody}, raced : BOOLEAN]]
  BY DEF CutInv, TypeInv, TypeOK, Stages
<1>2. UNCHANGED <<users, companies>>
  BY DEF disconnect, documents
<1>3. PendingRooms \ {room} \subseteq PendingRooms'
  <2>1. \A q \in Slots \ {p} : request'[q] = request[q]
    BY <1>1 DEF disconnect, Ends
  <2>. QED
    BY <2>1 DEF PendingRooms, RoomOf, userRoom, companyRoom
<1>4. CASE InRoom(s, room)
  BY <1>1, <1>4 DEF disconnect, CutSoon, NoSocket
<1>5. CASE ~ InRoom(s, room)
  <2>1. sockets'[s] = sockets[s]
    BY <1>5 DEF disconnect
  <2>2. CutSoon(s)
    BY DEF CutInv
  <2>3. sockets[s].step # "none" => room # userRoom(sockets[s].user)
    BY <1>5 DEF InRoom, roomsFor
  <2>4. sockets[s].step # "none" /\ Operator(sockets[s].user) =>
          room # companyRoom(users[sockets[s].user].company)
    BY <1>5 DEF InRoom, roomsFor, Operator, COMPANY_SCOPED_ROLES
  <2>. HIDE DEF room
  <2>. QED
    BY <1>2, <1>3, <2>1, <2>2, <2>3, <2>4 DEF CutSoon, Operator, userRoom, companyRoom
<1>. QED
  BY <1>4, <1>5

\* A handshake opens a connection only on what it has just read to be active.
LEMMA SocketCut ==
  ASSUME CutInv, NEW s \in Sockets, NEW t \in Sockets,
         \/ \E u \in DOMAIN users : Dial(s, u)
         \/ HandshakeUser(s) \/ HandshakeCompany(s) \/ Hangup(s)
  PROVE  CutSoon(t)'
<1>1. /\ sockets \in [Sockets -> [step : {"none", "user", "company", "connected"},
                                  user : Users \cup {Nobody}, raced : BOOLEAN]]
      /\ UNCHANGED <<users, companies, request>>
  BY DEF CutInv, TypeInv, TypeOK, Dial, HandshakeUser, HandshakeCompany, Hangup, documents
<1>2. PendingRooms' = PendingRooms
  BY <1>1 DEF PendingRooms, RoomOf, userRoom, companyRoom
<1>3. CutSoon(t)
  BY DEF CutInv
<1>4. CASE t # s
  <2>1. sockets'[t] = sockets[t]
    BY <1>1, <1>4 DEF Dial, HandshakeUser, HandshakeCompany, Hangup
  <2>. QED
    BY <1>1, <1>2, <1>3, <2>1 DEF CutSoon, Operator, userRoom, companyRoom
<1>5. CASE t = s
  <2>1. CASE (\E u \in DOMAIN users : Dial(s, u)) \/ Hangup(s)
    <3>1. sockets'[s].step \in {"none", "user"}
      <4>1. CASE \E u \in DOMAIN users : Dial(s, u)
        BY <1>1, <4>1 DEF Dial, NoSocket
      <4>2. CASE Hangup(s)
        BY <1>1, <4>2 DEF Hangup, NoSocket
      <4>. QED BY <2>1, <4>1, <4>2
    <3>. QED BY <1>5, <3>1 DEF CutSoon
  <2>2. CASE HandshakeUser(s)
    BY <1>1, <1>5, <2>2 DEF HandshakeUser, CutSoon, Operator, NoSocket
  <2>3. CASE HandshakeCompany(s)
    BY <1>1, <1>2, <1>3, <1>5, <2>3 DEF HandshakeCompany, CutSoon, NoSocket, userRoom, companyRoom
  <2>. QED BY <2>1, <2>2, <2>3
<1>. QED
  BY <1>4, <1>5

LEMMA CutStep == CutInv /\ [Next]_vars => CutInv'
<1>. SUFFICES ASSUME CutInv, [Next]_vars PROVE CutInv'
  OBVIOUS
<1>1. TypeInv /\ TypeInv'
  BY NextTyped DEF CutInv
<1>2. ASSUME NEW s \in Sockets PROVE CutSoon(s)'
  <2>1. ASSUME NEW p \in Slots, Handled(p), ~ disconnect(p) PROVE CutSoon(s)'
    BY <1>1, <2>1, HandledElsewhere, HandledTyped, StatusesWatched, CutStays
  <2>2. ASSUME NEW p \in Slots, disconnect(p) PROVE CutSoon(s)'
    BY <2>2, CutDone
  <2>3. ASSUME NEW p \in Slots,
               \/ \E u \in DOMAIN users, op \in Requested : Arrive(p, u, op)
               \/ \E e \in Emails : ArriveRegistration(p, e)
        PROVE  CutSoon(s)'
    <3>1. UNCHANGED documents
      BY <2>3 DEF Arrive, ArriveRegistration
    <3>2. Kept /\ UNCHANGED <<users, companies>>
      BY <1>1, <3>1, DocumentsUntouched DEF documents
    <3>3. Elsewhere(p) /\ UNCHANGED sockets
      BY <1>1, <2>3, HandledElsewhere
    <3>. QED
      BY <3>2, <3>3, CutStays
  <2>4. ASSUME NEW t \in Sockets,
               \/ \E u \in DOMAIN users : Dial(t, u)
               \/ HandshakeUser(t) \/ HandshakeCompany(t) \/ Hangup(t)
        PROVE  CutSoon(s)'
    BY <2>4, SocketCut
  <2>5. CASE UNCHANGED vars
    <3>1. CutSoon(s)
      BY DEF CutInv
    <3>. QED
      BY <2>5, <3>1 DEF vars, documents, CutSoon, PendingRooms, RoomOf, Operator, userRoom, companyRoom
  <2>. QED
    BY <2>1, <2>2, <2>3, <2>4, <2>5 DEF Next, Step
<1>. QED
  BY <1>1, <1>2 DEF CutInv

\* Whoever is suspended listens no longer once the suspension has cut the live
\* connections it found, unless the connection's handshake was under way at that
\* moment, for any number of browsers and suspensions at once (company.service.ts:169,
\* user.service.ts:215, realtime/publisher.ts:231).
THEOREM SuspensionsCut == Spec => []SuspendedSocketsRaced
<1>1. Init => CutInv
  BY InitTyped DEF Init, CutInv, CutSoon, NoSocket
<1>. QED
  BY <1>1, CutStep, CutSuffices, PTL DEF Spec

-----------------------------------------------------------------------------
(* No route is hidden by one that is tried before it *)

Segments ==
  {ID,
   "active", "analytics", "assign", "auth", "chargers", "charging", "cities",
   "companies", "complaints", "confirm", "connection", "connectors", "health", "login",
   "map", "me", "notifications", "order", "overview", "payments", "public", "razorpay",
   "read", "read-all", "readings", "recharge", "refund", "register", "reopen",
   "revenue", "sessions", "stations", "status", "stop", "tariffs", "token",
   "transactions", "unread-count", "users", "vehicles", "verify", "wallet", "webhook"}
Handlers ==
  {"assignComplaint", "confirmComplaintResolved", "createCharger", "createCompany",
   "createComplaint", "createConnector", "createRechargeOrder", "createStation",
   "createTariff", "createUser", "createVehicle", "deactivateVehicle",
   "getActiveSession", "getChargerById", "getCompanyById", "getComplaintById",
   "getConnectionState", "getConnector", "getConnectorForCharging", "getHealth",
   "getMyCompany", "getMyVehicle", "getMyWallet", "getOverview", "getPaymentById",
   "getRevenueSeries", "getSessionById", "getSessionSeries", "getStationById",
   "getTariffById", "getTopStations", "getUnreadCount", "getUserById", "listChargers",
   "listCompanies", "listComplaints", "listConnectors", "listMyTransactions",
   "listMyVehicles", "listNotifications", "listPayments", "listPublicStationCities",
   "listPublicStations", "listSessionReadings", "listSessions", "listStationCities",
   "listStationConnectors", "listStations", "listStationsForMap", "listTariffs",
   "listUsers", "login", "markAllAsRead", "markAsRead", "me", "razorpayWebhook",
   "refundRecharge", "regenerateChargerToken", "registerDriver", "reopenComplaint",
   "setChargerStatus", "setCompanyStatus", "setComplaintStatus", "setConnectorStatus",
   "setStationStatus", "setTariffStatus", "setUserStatus", "startSession",
   "stopSession", "updateCharger", "updateCompany", "updateComplaint",
   "updateConnector", "updateMe", "updateStation", "updateTariff", "updateUser",
   "updateVehicle", "verifyRecharge"}
Routings ==
  [method : {"GET", "POST", "PATCH", "DELETE"}, path : Seq(Segments), handler : Handlers,
   roles : SUBSET ANYONE, activeCompany : BOOLEAN]

\* A request for the second route would be taken by the first.
Hides(a, b) == Matches(a, b.method, b.path)

Unshadowed(routes) ==
  \A i, j \in DOMAIN routes : j < i => ~ Hides(routes[j], routes[i])

\* What sets two routes apart: the method, the length, or a segment.
Shape(route, m, n) == route.method = m /\ Len(route.path) = n
Differ(a, b, k) == k \in DOMAIN b.path /\ a.path[k] \notin {b.path[k], ID}

LEMMA SetApart ==
  /\ \A a, b, m, n, m2, n2 :
       Shape(a, m, n) /\ Shape(b, m2, n2) /\ (m # m2 \/ n # n2) => ~ Hides(a, b)
  /\ \A a, b, k : Differ(a, b, k) => ~ Hides(a, b)
  BY DEF Shape, Differ, Hides, Matches

LEMMA RoleSets ==
  /\ ROLES \in SUBSET ANYONE /\ STAFF_ROLES \in SUBSET ANYONE
  /\ WRITE_ROLES \in SUBSET ANYONE /\ PLATFORM \in SUBSET ANYONE
  /\ DRIVERS \in SUBSET ANYONE /\ {"cpo_admin", "operator"} \in SUBSET ANYONE
  /\ {"super_admin", "cpo_admin", "driver"} \in SUBSET ANYONE
  BY DEF STAFF_ROLES, WRITE_ROLES, ANYONE, ROLES, PLATFORM, DRIVERS

LEMMA HealthRoutesOK == healthRoutes \in Seq(Routings) /\ Unshadowed(healthRoutes)
<1> DEFINE r == healthRoutes
<1>1. r \in Seq(Routings)
  BY RoleSets, SMTT(60) DEF healthRoutes, Route, Routings, Handlers, Segments
<1>2. Unshadowed(r)
  BY DEF healthRoutes, Unshadowed
<1> QED BY <1>1, <1>2

LEMMA AuthRoutesOK == authRoutes \in Seq(Routings) /\ Unshadowed(authRoutes)
<1> DEFINE r == authRoutes
<1>1. r \in Seq(Routings)
  BY RoleSets, SMTT(60) DEF authRoutes, Route, Routings, Handlers, Segments
<1>2. DOMAIN r = {1, 2, 3}
  BY DEF authRoutes
<1>3. /\ Shape(r[1], "POST", 1) /\ Shape(r[2], "POST", 1) /\ Shape(r[3], "GET", 1)
  BY DEF authRoutes, Route, Shape
<1>4. /\ Differ(r[1], r[2], 1)
  BY DEF authRoutes, Route, ID, Differ
<1> HIDE DEF r
<1>5. Unshadowed(r)
  BY <1>2, <1>3, <1>4, SetApart DEF Unshadowed
<1> QED BY <1>1, <1>5 DEF r

LEMMA CompanyRoutesOK == companyRoutes \in Seq(Routings) /\ Unshadowed(companyRoutes)
<1> DEFINE r == companyRoutes
<1>1. r \in Seq(Routings)
  BY RoleSets, SMTT(60) DEF companyRoutes, Route, Routings, Handlers, Segments
<1>2. DOMAIN r = {1, 2, 3, 4, 5, 6}
  BY DEF companyRoutes
<1>3. /\ Shape(r[1], "GET", 1) /\ Shape(r[2], "POST", 0) /\ Shape(r[3], "GET", 0)
      /\ Shape(r[4], "GET", 1) /\ Shape(r[5], "PATCH", 1) /\ Shape(r[6], "PATCH", 2)
  BY DEF companyRoutes, Route, Shape
<1>4. /\ Differ(r[1], r[4], 1)
  BY DEF companyRoutes, Route, ID, Differ
<1> HIDE DEF r
<1>5. Unshadowed(r)
  BY <1>2, <1>3, <1>4, SetApart DEF Unshadowed
<1> QED BY <1>1, <1>5 DEF r

LEMMA UserRoutesOK == userRoutes \in Seq(Routings) /\ Unshadowed(userRoutes)
<1> DEFINE r == userRoutes
<1>1. r \in Seq(Routings)
  BY RoleSets, SMTT(60) DEF userRoutes, Route, Routings, Handlers, Segments
<1>2. DOMAIN r = {1, 2, 3, 4, 5, 6, 7, 8, 9, 10, 11}
  BY DEF userRoutes
<1>3. /\ Shape(r[1], "PATCH", 1) /\ Shape(r[2], "GET", 2) /\ Shape(r[3], "POST", 2)
      /\ Shape(r[4], "GET", 3) /\ Shape(r[5], "PATCH", 3) /\ Shape(r[6], "DELETE", 3)
      /\ Shape(r[7], "GET", 0) /\ Shape(r[8], "POST", 0) /\ Shape(r[9], "GET", 1)
      /\ Shape(r[10], "PATCH", 1) /\ Shape(r[11], "PATCH", 2)
  BY DEF userRoutes, Route, Shape
<1>4. /\ Differ(r[1], r[10], 1)
  BY DEF userRoutes, Route, ID, Differ
<1> HIDE DEF r
<1>5. Unshadowed(r)
  BY <1>2, <1>3, <1>4, SetApart DEF Unshadowed
<1> QED BY <1>1, <1>5 DEF r

LEMMA StationRoutesOK == stationRoutes \in Seq(Routings) /\ Unshadowed(stationRoutes)
<1> DEFINE r == stationRoutes
<1>1. r \in Seq(Routings)
  BY RoleSets, SMTT(60) DEF stationRoutes, Route, Routings, Handlers, Segments
<1>2. DOMAIN r = {1, 2, 3, 4, 5, 6, 7, 8, 9}
  BY DEF stationRoutes
<1>3. /\ Shape(r[1], "GET", 1) /\ Shape(r[2], "GET", 1) /\ Shape(r[3], "GET", 2)
      /\ Shape(r[4], "GET", 1) /\ Shape(r[5], "GET", 0) /\ Shape(r[6], "GET", 1)
      /\ Shape(r[7], "POST", 0) /\ Shape(r[8], "PATCH", 1) /\ Shape(r[9], "PATCH", 2)
  BY DEF stationRoutes, Route, Shape
<1>4. /\ Differ(r[1], r[2], 1) /\ Differ(r[1], r[4], 1) /\ Differ(r[2], r[4], 1)
      /\ Differ(r[1], r[6], 1) /\ Differ(r[2], r[6], 1) /\ Differ(r[4], r[6], 1)
  BY DEF stationRoutes, Route, ID, Differ
<1> HIDE DEF r
<1>5. Unshadowed(r)
  BY <1>2, <1>3, <1>4, SetApart DEF Unshadowed
<1> QED BY <1>1, <1>5 DEF r

LEMMA ChargerRoutesOK == chargerRoutes \in Seq(Routings) /\ Unshadowed(chargerRoutes)
<1> DEFINE r == chargerRoutes
<1>1. r \in Seq(Routings)
  BY RoleSets, SMTT(60) DEF chargerRoutes, Route, Routings, Handlers, Segments
<1>2. DOMAIN r = {1, 2, 3, 4, 5, 6, 7, 8, 9, 10, 11, 12}
  BY DEF chargerRoutes
<1>3. /\ Shape(r[1], "GET", 2) /\ Shape(r[2], "POST", 2) /\ Shape(r[3], "GET", 3)
      /\ Shape(r[4], "PATCH", 3) /\ Shape(r[5], "PATCH", 4) /\ Shape(r[6], "GET", 2)
      /\ Shape(r[7], "POST", 2) /\ Shape(r[8], "GET", 0) /\ Shape(r[9], "POST", 0)
      /\ Shape(r[10], "GET", 1) /\ Shape(r[11], "PATCH", 1) /\ Shape(r[12], "PATCH", 2)
  BY DEF chargerRoutes, Route, Shape
<1>4. /\ Differ(r[1], r[6], 2) /\ Differ(r[2], r[7], 2)
  BY DEF chargerRoutes, Route, ID, Differ
<1> HIDE DEF r
<1>5. Unshadowed(r)
  BY <1>2, <1>3, <1>4, SetApart DEF Unshadowed
<1> QED BY <1>1, <1>5 DEF r

LEMMA SessionRoutesOK == sessionRoutes \in Seq(Routings) /\ Unshadowed(sessionRoutes)
<1> DEFINE r == sessionRoutes
<1>1. r \in Seq(Routings)
  BY RoleSets, SMTT(60) DEF sessionRoutes, Route, Routings, Handlers, Segments
<1>2. DOMAIN r = {1, 2, 3, 4, 5, 6, 7, 8}
  BY DEF sessionRoutes
<1>3. /\ Shape(r[1], "GET", 2) /\ Shape(r[2], "GET", 3) /\ Shape(r[3], "POST", 1)
      /\ Shape(r[4], "GET", 2) /\ Shape(r[5], "GET", 1) /\ Shape(r[6], "GET", 2)
      /\ Shape(r[7], "GET", 3) /\ Shape(r[8], "POST", 3)
  BY DEF sessionRoutes, Route, Shape
<1>4. /\ Differ(r[1], r[4], 1) /\ Differ(r[1], r[6], 1) /\ Differ(r[4], r[6], 2)
      /\ Differ(r[2], r[7], 1)
  BY DEF sessionRoutes, Route, ID, Differ
<1> HIDE DEF r
<1>5. Unshadowed(r)
  BY <1>2, <1>3, <1>4, SetApart DEF Unshadowed
<1> QED BY <1>1, <1>5 DEF r

LEMMA TariffRoutesOK == tariffRoutes \in Seq(Routings) /\ Unshadowed(tariffRoutes)
<1> DEFINE r == tariffRoutes
<1>1. r \in Seq(Routings)
  BY RoleSets, SMTT(60) DEF tariffRoutes, Route, Routings, Handlers, Segments
<1>2. DOMAIN r = {1, 2, 3, 4, 5}
  BY DEF tariffRoutes
<1>3. /\ Shape(r[1], "GET", 0) /\ Shape(r[2], "POST", 0) /\ Shape(r[3], "GET", 1)
      /\ Shape(r[4], "PATCH", 1) /\ Shape(r[5], "PATCH", 2)
  BY DEF tariffRoutes, Route, Shape
<1> HIDE DEF r
<1>4. Unshadowed(r)
  BY <1>2, <1>3, SetApart DEF Unshadowed
<1> QED BY <1>1, <1>4 DEF r

LEMMA WalletRouterOK == walletRouter \in Seq(Routings) /\ Unshadowed(walletRouter)
<1> DEFINE r == walletRouter
<1>1. r \in Seq(Routings)
  BY RoleSets, SMTT(60) DEF walletRouter, Route, Routings, Handlers, Segments
<1>2. DOMAIN r = {1, 2, 3, 4}
  BY DEF walletRouter
<1>3. /\ Shape(r[1], "GET", 0) /\ Shape(r[2], "GET", 1) /\ Shape(r[3], "POST", 2)
      /\ Shape(r[4], "POST", 2)
  BY DEF walletRouter, Route, Shape
<1>4. /\ Differ(r[3], r[4], 2)
  BY DEF walletRouter, Route, ID, Differ
<1> HIDE DEF r
<1>5. Unshadowed(r)
  BY <1>2, <1>3, <1>4, SetApart DEF Unshadowed
<1> QED BY <1>1, <1>5 DEF r

LEMMA PaymentRoutesOK == paymentRoutes \in Seq(Routings) /\ Unshadowed(paymentRoutes)
<1> DEFINE r == paymentRoutes
<1>1. r \in Seq(Routings)
  BY RoleSets, SMTT(60) DEF paymentRoutes, Route, Routings, Handlers, Segments
<1>2. DOMAIN r = {1, 2, 3, 4}
  BY DEF paymentRoutes
<1>3. /\ Shape(r[1], "POST", 2) /\ Shape(r[2], "GET", 0) /\ Shape(r[3], "GET", 1)
      /\ Shape(r[4], "POST", 2)
  BY DEF paymentRoutes, Route, Shape
<1>4. /\ Differ(r[1], r[4], 1)
  BY DEF paymentRoutes, Route, ID, Differ
<1> HIDE DEF r
<1>5. Unshadowed(r)
  BY <1>2, <1>3, <1>4, SetApart DEF Unshadowed
<1> QED BY <1>1, <1>5 DEF r

LEMMA ComplaintRoutesOK == complaintRoutes \in Seq(Routings) /\ Unshadowed(complaintRoutes)
<1> DEFINE r == complaintRoutes
<1>1. r \in Seq(Routings)
  BY RoleSets, SMTT(60) DEF complaintRoutes, Route, Routings, Handlers, Segments
<1>2. DOMAIN r = {1, 2, 3, 4, 5, 6, 7, 8}
  BY DEF complaintRoutes
<1>3. /\ Shape(r[1], "POST", 0) /\ Shape(r[2], "GET", 0) /\ Shape(r[3], "GET", 1)
      /\ Shape(r[4], "PATCH", 1) /\ Shape(r[5], "PATCH", 2) /\ Shape(r[6], "POST", 2)
      /\ Shape(r[7], "POST", 2) /\ Shape(r[8], "POST", 2)
  BY DEF complaintRoutes, Route, Shape
<1>4. /\ Differ(r[6], r[7], 2) /\ Differ(r[6], r[8], 2) /\ Differ(r[7], r[8], 2)
  BY DEF complaintRoutes, Route, ID, Differ
<1> HIDE DEF r
<1>5. Unshadowed(r)
  BY <1>2, <1>3, <1>4, SetApart DEF Unshadowed
<1> QED BY <1>1, <1>5 DEF r

LEMMA NotificationRoutesOK ==
  notificationRoutes \in Seq(Routings) /\ Unshadowed(notificationRoutes)
<1> DEFINE r == notificationRoutes
<1>1. r \in Seq(Routings)
  BY RoleSets, SMTT(60) DEF notificationRoutes, Route, Routings, Handlers, Segments
<1>2. DOMAIN r = {1, 2, 3, 4}
  BY DEF notificationRoutes
<1>3. /\ Shape(r[1], "GET", 0) /\ Shape(r[2], "GET", 1) /\ Shape(r[3], "PATCH", 1)
      /\ Shape(r[4], "PATCH", 2)
  BY DEF notificationRoutes, Route, Shape
<1> HIDE DEF r
<1>4. Unshadowed(r)
  BY <1>2, <1>3, SetApart DEF Unshadowed
<1> QED BY <1>1, <1>4 DEF r

LEMMA AnalyticsRoutesOK == analyticsRoutes \in Seq(Routings) /\ Unshadowed(analyticsRoutes)
<1> DEFINE r == analyticsRoutes
<1>1. r \in Seq(Routings)
  BY RoleSets, SMTT(60) DEF analyticsRoutes, Route, Routings, Handlers, Segments
<1>2. DOMAIN r = {1, 2, 3, 4}
  BY DEF analyticsRoutes
<1>3. /\ Shape(r[1], "GET", 1) /\ Shape(r[2], "GET", 1) /\ Shape(r[3], "GET", 1)
      /\ Shape(r[4], "GET", 1)
  BY DEF analyticsRoutes, Route, Shape
<1>4. /\ Differ(r[1], r[2], 1) /\ Differ(r[1], r[3], 1) /\ Differ(r[2], r[3], 1)
      /\ Differ(r[1], r[4], 1) /\ Differ(r[2], r[4], 1) /\ Differ(r[3], r[4], 1)
  BY DEF analyticsRoutes, Route, ID, Differ
<1> HIDE DEF r
<1>5. Unshadowed(r)
  BY <1>2, <1>3, <1>4, SetApart DEF Unshadowed
<1> QED BY <1>1, <1>5 DEF r

(* Below the first segment of a path. *)
Below(x, route) == [route EXCEPT !.path = <<x>> \o @]

LEMMA BelowFields ==
  ASSUME NEW x \in Segments, NEW route \in Routings
  PROVE  /\ Below(x, route) \in Routings /\ Below(x, route).path = <<x>> \o route.path
         /\ route.path \in Seq(Segments) /\ Below(x, route).path \in Seq(Segments)
         /\ Below(x, route).method = route.method
         /\ Below(x, route).handler = route.handler /\ Below(x, route).roles = route.roles
<1>1. route.path \in Seq(Segments)
  BY DEF Routings
<1>2. <<x>> \o route.path \in Seq(Segments)
  BY <1>1
<1> QED BY <1>1, <1>2 DEF Below, Routings

LEMMA BelowMatches ==
  ASSUME NEW x \in Segments, NEW route \in Routings, NEW m, NEW path \in Seq(Segments),
         NEW y \in Segments
  PROVE  Matches(Below(x, route), m, <<y>> \o path) <=> x \in {y, ID} /\ Matches(route, m, path)
<1> DEFINE q == Below(x, route).path
           p == <<y>> \o path
<1>1. /\ q \in Seq(Segments) /\ p \in Seq(Segments) /\ route.path \in Seq(Segments)
      /\ Len(q) = Len(route.path) + 1 /\ Len(p) = Len(path) + 1
      /\ q[1] = x /\ p[1] = y
      /\ \A i \in 1..Len(route.path) : q[i + 1] = route.path[i]
      /\ \A i \in 1..Len(path) : p[i + 1] = path[i]
  <2>1. q = <<x>> \o route.path /\ route.path \in Seq(Segments)
    BY BelowFields
  <2> HIDE DEF q
  <2> QED BY <2>1
<1>2. Below(x, route).path = q /\ Below(x, route).method = route.method
  BY BelowFields
<1> HIDE DEF q, p
<1>3. ASSUME Len(q) = Len(p), x \in {y, ID}, \A i \in DOMAIN path : route.path[i] \in {path[i], ID}
      PROVE  \A i \in DOMAIN p : q[i] \in {p[i], ID}
  <2> TAKE i \in DOMAIN p
  <2>1. CASE i = 1
    BY <2>1, <1>1, <1>3
  <2>2. CASE i > 1
    <3>1. i - 1 \in 1..Len(path) /\ i = (i - 1) + 1
      BY <2>2, <1>1
    <3> QED BY <3>1, <1>1, <1>3
  <2> QED BY <2>1, <2>2, <1>1
<1>4. ASSUME Len(q) = Len(p), \A i \in DOMAIN p : q[i] \in {p[i], ID}
      PROVE  x \in {y, ID} /\ \A i \in DOMAIN path : route.path[i] \in {path[i], ID}
  <2>1. x \in {y, ID}
    <3>1. 1 \in DOMAIN p
      BY <1>1
    <3> QED BY <3>1, <1>1, <1>4
  <2>2. ASSUME NEW i \in DOMAIN path PROVE route.path[i] \in {path[i], ID}
    <3>1. i + 1 \in DOMAIN p /\ i \in 1..Len(path) /\ i \in 1..Len(route.path)
      BY <1>1, <1>4
    <3> QED BY <3>1, <1>1, <1>4
  <2> QED BY <2>1, <2>2
<1>5. Len(q) = Len(p) <=> Len(route.path) = Len(path)
  BY <1>1
<1> QED BY <1>2, <1>3, <1>4, <1>5 DEF Matches, p

LEMMA MountedRoutings ==
  ASSUME NEW x \in Segments, NEW A \in Seq(Routings)
  PROVE  /\ Mounted(<<x>>, A) \in Seq(Routings)
         /\ DOMAIN Mounted(<<x>>, A) = DOMAIN A
         /\ \A i \in DOMAIN A : /\ Mounted(<<x>>, A)[i] = Below(x, A[i])
                               /\ A[i] \in Routings
<1>1. ASSUME NEW i \in DOMAIN A
      PROVE  A[i] \in Routings /\ Below(x, A[i]) \in Routings
  <2>1. A[i] \in Routings
    OBVIOUS
  <2> QED BY <2>1, BelowFields
<1>2. Mounted(<<x>>, A) = [i \in DOMAIN A |-> Below(x, A[i])]
  BY DEF Mounted, Below
<1> QED BY <1>1, <1>2

(* A router under construction: the routers mounted on it so far, each under  *)
(* a first segment of its own.                                               *)
Has(A, x, B) == \A i \in DOMAIN B : \E j \in DOMAIN A : A[j] = Below(x, B[i])

Built(A, parts) ==
  /\ A \in Seq(Routings) /\ Unshadowed(A)
  /\ \A i \in DOMAIN A : A[i].path # <<>> /\ \E p \in parts : A[i].path[1] = p[1]
  /\ \A p \in parts :
       p[1] \in Segments \ {ID} /\ p[2] \in Seq(Routings) /\ Has(A, p[1], p[2])

LEMMA MountedBuilt ==
  ASSUME NEW x \in Segments \ {ID}, NEW A \in Seq(Routings), Unshadowed(A)
  PROVE  Built(Mounted(<<x>>, A), {<<x, A>>})
<1> DEFINE M == Mounted(<<x>>, A)
<1>1. ASSUME NEW i \in DOMAIN A
      PROVE  /\ i \in DOMAIN M /\ M[i] = Below(x, A[i]) /\ A[i] \in Routings
             /\ A[i].path \in Seq(Segments)
             /\ M[i].path = <<x>> \o A[i].path /\ M[i].method = A[i].method
  <2>1. M[i] = Below(x, A[i]) /\ A[i] \in Routings /\ i \in DOMAIN M
    BY MountedRoutings
  <2> HIDE DEF M
  <2> QED BY <2>1, BelowFields
<1>2. M \in Seq(Routings) /\ DOMAIN M = DOMAIN A
  BY MountedRoutings
<1> HIDE DEF M
<1>3. ASSUME NEW i \in DOMAIN A, NEW j \in DOMAIN A, j < i
      PROVE  ~ Hides(M[j], M[i])
  <2>1. ~ Matches(A[j], A[i].method, A[i].path)
    BY <1>3 DEF Unshadowed, Hides
  <2>2. ~ Matches(Below(x, A[j]), A[i].method, <<x>> \o A[i].path)
    BY <1>1, <2>1, BelowMatches
  <2> QED BY <1>1, <2>2 DEF Hides
<1>4. ASSUME NEW i \in DOMAIN A PROVE M[i].path # <<>> /\ M[i].path[1] = x
  BY <1>1
<1>5. Unshadowed(M) /\ Has(M, x, A)
  BY <1>1, <1>2, <1>3 DEF Unshadowed, Has
<1>6. Built(M, {<<x, A>>})
  BY <1>2, <1>4, <1>5 DEF Built
<1> QED BY <1>6 DEF M

\* A router mounted after others, under a segment of its own.
LEMMA MountedNext ==
  ASSUME NEW A, NEW parts, Built(A, parts),
         NEW y \in Segments \ {ID}, \A p \in parts : p[1] # y,
         NEW R \in Seq(Routings), Unshadowed(R)
  PROVE  Built(A \o Mounted(<<y>>, R), parts \cup {<<y, R>>})
<1> DEFINE B == Mounted(<<y>>, R)
           C == A \o B
           n == Len(A)
<1>0. Built(B, {<<y, R>>})
  BY MountedBuilt
<1> HIDE DEF B
<1>1. /\ C \in Seq(Routings) /\ n \in Nat
      /\ \A i \in DOMAIN A : i \in DOMAIN C /\ C[i] = A[i] /\ i <= n
      /\ \A i \in DOMAIN B : n + i \in DOMAIN C /\ C[n + i] = B[i]
      /\ \A i \in DOMAIN C :
           \/ i \in DOMAIN A
           \/ i > n /\ i - n \in DOMAIN B /\ C[i] = B[i - n]
      /\ DOMAIN C \subseteq Nat
  BY <1>0 DEF Built
<1>b. ASSUME NEW i \in DOMAIN B
      PROVE  B[i].path[1] = y /\ B[i].path # <<>> /\ B[i].path \in Seq(Segments)
  <2>1. B[i].path[1] = y /\ B[i].path # <<>>
    <3>1. PICK p \in {<<y, R>>} : B[i].path[1] = p[1]
      BY <1>0 DEF Built
    <3> QED BY <3>1, <1>0 DEF Built
  <2>2. B[i] \in Routings
    BY <1>0 DEF Built
  <2> QED BY <2>1, <2>2 DEF Routings
<1>a. ASSUME NEW i \in DOMAIN A
      PROVE  A[i].path[1] \notin {y, ID} /\ A[i].path # <<>>
             /\ \E p \in parts : A[i].path[1] = p[1]
  BY DEF Built
<1> HIDE DEF C, n
<1>2. ASSUME NEW i \in DOMAIN C, NEW j \in DOMAIN C, j < i
      PROVE  ~ Hides(C[j], C[i])
  <2>1. CASE i \in DOMAIN A /\ j \in DOMAIN A
    BY <1>1, <1>2, <2>1 DEF Built, Unshadowed
  <2>2. CASE i \notin DOMAIN A /\ j \notin DOMAIN A
    <3>1. /\ C[i] = B[i - n] /\ C[j] = B[j - n]
          /\ i - n \in DOMAIN B /\ j - n \in DOMAIN B /\ j - n < i - n
      BY <1>1, <1>2, <2>2
    <3> QED BY <1>0, <3>1 DEF Built, Unshadowed
  <2>3. CASE i \in DOMAIN A /\ j \notin DOMAIN A
    BY <1>1, <1>2, <2>3
  <2>4. CASE i \notin DOMAIN A /\ j \in DOMAIN A
    <3>1. C[i].path[1] = y /\ C[i].path # <<>> /\ C[i].path \in Seq(Segments)
      BY <1>1, <1>b, <2>4
    <3>2. C[j].path[1] \notin {y, ID}
      BY <1>1, <1>a, <2>4
    <3>3. Differ(C[j], C[i], 1)
      BY <3>1, <3>2 DEF Differ
    <3> QED BY <3>3, SetApart
  <2> QED BY <2>1, <2>2, <2>3, <2>4
<1> DEFINE P == parts \cup {<<y, R>>}
<1>3. ASSUME NEW i \in DOMAIN C
      PROVE  C[i].path # <<>> /\ \E p \in P : C[i].path[1] = p[1]
  <2>1. CASE i \in DOMAIN A
    <3>1. PICK p \in parts : A[i].path[1] = p[1]
      BY <1>a, <2>1
    <3> QED BY <1>1, <1>a, <2>1, <3>1
  <2>2. CASE i \notin DOMAIN A
    <3>1. C[i].path # <<>> /\ C[i].path[1] = y
      BY <1>1, <1>b, <2>2
    <3>2. <<y, R>> \in P /\ <<y, R>>[1] = y
      OBVIOUS
    <3> QED BY <3>1, <3>2
  <2> QED BY <2>1, <2>2
<1>4. ASSUME NEW p \in P
      PROVE  p[1] \in Segments \ {ID} /\ p[2] \in Seq(Routings) /\ Has(C, p[1], p[2])
  <2>1. CASE p \in parts
    <3>1. p[1] \in Segments \ {ID} /\ p[2] \in Seq(Routings) /\ Has(A, p[1], p[2])
      BY <2>1 DEF Built
    <3> QED BY <3>1, <1>1 DEF Has
  <2>2. CASE p = <<y, R>>
    <3>1. Has(B, y, R)
      BY <1>0 DEF Built
    <3> QED BY <2>2, <3>1, <1>1 DEF Has
  <2> QED BY <2>1, <2>2
<1>5. Built(C, P)
  BY <1>1, <1>2, <1>3, <1>4 DEF Built, Unshadowed
<1> QED BY <1>5 DEF C, B

(* The routers of the server in the order in which they are mounted. *)
Mounts ==
  {<<"health", healthRoutes>>, <<"auth", authRoutes>>, <<"companies", companyRoutes>>,
   <<"users", userRoutes>>, <<"stations", stationRoutes>>,
   <<"chargers", chargerRoutes>>, <<"charging", sessionRoutes>>,
   <<"tariffs", tariffRoutes>>, <<"wallet", walletRouter>>,
   <<"payments", paymentRoutes>>, <<"complaints", complaintRoutes>>,
   <<"notifications", notificationRoutes>>, <<"analytics", analyticsRoutes>>}

\* The router of the server is made of them, and no route of it is hidden.
LEMMA RouterBuilt == Built(router, Mounts)
<1>0. {"health", "auth", "companies", "users", "stations", "chargers", "charging",
        "tariffs", "wallet", "payments", "complaints", "notifications", "analytics"}
        \subseteq Segments \ {ID}
  BY DEF Segments, ID
<1> DEFINE A1 == Mounted(<<"health">>, healthRoutes)
           P1 == {<<"health", healthRoutes>>}
<1>1. Built(A1, P1)
  BY <1>0, HealthRoutesOK, MountedBuilt
<1> DEFINE A2 == A1 \o Mounted(<<"auth">>, authRoutes)
           P2 == P1 \cup {<<"auth", authRoutes>>}
<1> HIDE DEF A1
<1>2. Built(A2, P2)
  BY <1>0, <1>1, AuthRoutesOK, MountedNext
<1> DEFINE A3 == A2 \o Mounted(<<"companies">>, companyRoutes)
           P3 == P2 \cup {<<"companies", companyRoutes>>}
<1> HIDE DEF A2
<1>3. Built(A3, P3)
  BY <1>0, <1>2, CompanyRoutesOK, MountedNext
<1> DEFINE A4 == A3 \o Mounted(<<"users">>, userRoutes)
           P4 == P3 \cup {<<"users", userRoutes>>}
<1> HIDE DEF A3
<1>4. Built(A4, P4)
  BY <1>0, <1>3, UserRoutesOK, MountedNext
<1> DEFINE A5 == A4 \o Mounted(<<"stations">>, stationRoutes)
           P5 == P4 \cup {<<"stations", stationRoutes>>}
<1> HIDE DEF A4
<1>5. Built(A5, P5)
  BY <1>0, <1>4, StationRoutesOK, MountedNext
<1> DEFINE A6 == A5 \o Mounted(<<"chargers">>, chargerRoutes)
           P6 == P5 \cup {<<"chargers", chargerRoutes>>}
<1> HIDE DEF A5
<1>6. Built(A6, P6)
  BY <1>0, <1>5, ChargerRoutesOK, MountedNext
<1> DEFINE A7 == A6 \o Mounted(<<"charging">>, sessionRoutes)
           P7 == P6 \cup {<<"charging", sessionRoutes>>}
<1> HIDE DEF A6
<1>7. Built(A7, P7)
  BY <1>0, <1>6, SessionRoutesOK, MountedNext
<1> DEFINE A8 == A7 \o Mounted(<<"tariffs">>, tariffRoutes)
           P8 == P7 \cup {<<"tariffs", tariffRoutes>>}
<1> HIDE DEF A7
<1>8. Built(A8, P8)
  BY <1>0, <1>7, TariffRoutesOK, MountedNext
<1> DEFINE A9 == A8 \o Mounted(<<"wallet">>, walletRouter)
           P9 == P8 \cup {<<"wallet", walletRouter>>}
<1> HIDE DEF A8
<1>9. Built(A9, P9)
  BY <1>0, <1>8, WalletRouterOK, MountedNext
<1> DEFINE A10 == A9 \o Mounted(<<"payments">>, paymentRoutes)
           P10 == P9 \cup {<<"payments", paymentRoutes>>}
<1> HIDE DEF A9
<1>10. Built(A10, P10)
  BY <1>0, <1>9, PaymentRoutesOK, MountedNext
<1> DEFINE A11 == A10 \o Mounted(<<"complaints">>, complaintRoutes)
           P11 == P10 \cup {<<"complaints", complaintRoutes>>}
<1> HIDE DEF A10
<1>11. Built(A11, P11)
  BY <1>0, <1>10, ComplaintRoutesOK, MountedNext
<1> DEFINE A12 == A11 \o Mounted(<<"notifications">>, notificationRoutes)
           P12 == P11 \cup {<<"notifications", notificationRoutes>>}
<1> HIDE DEF A11
<1>12. Built(A12, P12)
  BY <1>0, <1>11, NotificationRoutesOK, MountedNext
<1> DEFINE A13 == A12 \o Mounted(<<"analytics">>, analyticsRoutes)
           P13 == P12 \cup {<<"analytics", analyticsRoutes>>}
<1> HIDE DEF A12
<1>13. Built(A13, P13)
  BY <1>0, <1>12, AnalyticsRoutesOK, MountedNext
<1> USE DEF A1, A2, A3, A4, A5, A6, A7, A8, A9, A10, A11, A12
<1>a. router = A13 /\ Mounts = P13
  BY DEF router, Mounts
<1> QED BY <1>13, <1>a

\* No route of the server is hidden by one that is tried before it (company.routes.ts:30,
\* user.routes.ts:42, station.routes.ts:54, session.routes.ts:106, notification.routes.ts:36
\* declare a literal segment before the parameter that would take it): a request that
\* spells out the path of a route is dispatched to that route and to no other.
THEOREM EveryRouteReached ==
  \A i \in DOMAIN router : Dispatched(router[i].method, router[i].path) = {router[i]}
<1> SUFFICES ASSUME NEW i \in DOMAIN router
             PROVE  Dispatched(router[i].method, router[i].path) = {router[i]}
  OBVIOUS
<1>1. router \in Seq(Routings) /\ Unshadowed(router)
  BY RouterBuilt DEF Built
<1>2. router[i].path \in Seq(Segments)
  <2>1. router[i] \in Routings
    BY <1>1
  <2> QED BY <2>1 DEF Routings
<1>3. Matches(router[i], router[i].method, router[i].path)
  BY <1>2 DEF Matches
<1>4. \A j \in 1..(i - 1) : j \in DOMAIN router /\ j < i
  BY <1>1
<1>5. \A j \in 1..(i - 1) : ~ Matches(router[j], router[i].method, router[i].path)
  BY <1>1, <1>4 DEF Unshadowed, Hides
<1>6. ASSUME NEW k \in DOMAIN router,
             Matches(router[k], router[i].method, router[i].path),
             \A j \in 1..(k - 1) : ~ Matches(router[j], router[i].method, router[i].path)
      PROVE  k = i
  <2>1. ~ k < i
    BY <1>1, <1>6 DEF Unshadowed, Hides
  <2>2. ~ i < k
    <3>1. i < k => i \in 1..(k - 1)
      BY <1>1
    <3> QED BY <3>1, <1>3, <1>6
  <2> QED BY <2>1, <2>2, <1>1
<1> QED BY <1>3, <1>5, <1>6 DEF Dispatched

-----------------------------------------------------------------------------
(* What the browser sends reaches the handler it is meant for *)

Under(x, path) == <<x>> \o path

LEMMA OneMore ==
  /\ \A y : Under(y, <<>>) = <<y>>
  /\ \A y, a : Under(y, <<a>>) = <<y, a>>
  /\ \A y, a, b : Under(y, <<a, b>>) = <<y, a, b>>
  /\ \A y, a, b, c : Under(y, <<a, b, c>>) = <<y, a, b, c>>
  /\ \A y, a, b, c, d : Under(y, <<a, b, c, d>>) = <<y, a, b, c, d>>
<1>0. ASSUME NEW y PROVE <<y>> \o << >> = <<y>>
  <2> DEFINE S == {y}
             s == <<y>> \o << >>
             t == <<y>>
  <2>1. s \in Seq(S) /\ t \in Seq(S) /\ Len(s) = 1 /\ Len(t) = 1
    OBVIOUS
  <2>2. 1..1 = {1} /\ \A i \in {1} : s[i] = t[i]
    OBVIOUS
  <2> HIDE DEF S, s, t
  <2>3. s = t
    BY <2>1, <2>2, SeqEqual
  <2> QED BY <2>3 DEF s, t
<1>1. ASSUME NEW y, NEW a PROVE <<y>> \o <<a>> = <<y, a>>
  <2> DEFINE S == {y, a}
             s == <<y>> \o <<a>>
             t == <<y, a>>
  <2>1. s \in Seq(S) /\ t \in Seq(S) /\ Len(s) = 2 /\ Len(t) = 2
    OBVIOUS
  <2>2. 1..2 = {1, 2} /\ \A i \in {1, 2} : s[i] = t[i]
    OBVIOUS
  <2> HIDE DEF S, s, t
  <2>3. s = t
    BY <2>1, <2>2, SeqEqual
  <2> QED BY <2>3 DEF s, t
<1>2. ASSUME NEW y, NEW a, NEW b PROVE <<y>> \o <<a, b>> = <<y, a, b>>
  <2> DEFINE S == {y, a, b}
             s == <<y>> \o <<a, b>>
             t == <<y, a, b>>
  <2>1. s \in Seq(S) /\ t \in Seq(S) /\ Len(s) = 3 /\ Len(t) = 3
    OBVIOUS
  <2>2. 1..3 = {1, 2, 3} /\ \A i \in {1, 2, 3} : s[i] = t[i]
    OBVIOUS
  <2> HIDE DEF S, s, t
  <2>3. s = t
    BY <2>1, <2>2, SeqEqual
  <2> QED BY <2>3 DEF s, t
<1>3. ASSUME NEW y, NEW a, NEW b, NEW c PROVE <<y>> \o <<a, b, c>> = <<y, a, b, c>>
  <2> DEFINE S == {y, a, b, c}
             s == <<y>> \o <<a, b, c>>
             t == <<y, a, b, c>>
  <2>1. s \in Seq(S) /\ t \in Seq(S) /\ Len(s) = 4 /\ Len(t) = 4
    OBVIOUS
  <2>2. 1..4 = {1, 2, 3, 4} /\ \A i \in {1, 2, 3, 4} : s[i] = t[i]
    OBVIOUS
  <2> HIDE DEF S, s, t
  <2>3. s = t
    BY <2>1, <2>2, SeqEqual
  <2> QED BY <2>3 DEF s, t
<1>4. ASSUME NEW y, NEW a, NEW b, NEW c, NEW d PROVE <<y>> \o <<a, b, c, d>> = <<y, a, b, c, d>>
  <2> DEFINE S == {y, a, b, c, d}
             s == <<y>> \o <<a, b, c, d>>
             t == <<y, a, b, c, d>>
  <2>1. s \in Seq(S) /\ t \in Seq(S) /\ Len(s) = 5 /\ Len(t) = 5
    OBVIOUS
  <2>2. 1..5 = {1, 2, 3, 4, 5} /\ \A i \in {1, 2, 3, 4, 5} : s[i] = t[i]
    OBVIOUS
  <2> HIDE DEF S, s, t
  <2>3. s = t
    BY <2>1, <2>2, SeqEqual
  <2> QED BY <2>3 DEF s, t
<1> QED BY <1>0, <1>1, <1>2, <1>3, <1>4, Zenon DEF Under

\* A function of the browser sends what a route expects that is open to R.
Sends(name, x, A, i, R) ==
  /\ i \in DOMAIN A /\ A[i].roles = R
  /\ Call(name, A[i].method, Under(x, A[i].path), A[i].handler) \in services

LEMMA Answered ==
  ASSUME NEW x, NEW A, <<x, A>> \in Mounts, NEW name, NEW i, NEW R, Sends(name, x, A, i, R),
         NEW r \in ANYONE, r \in R
  PROVE  name \in ServedTo[r]
<1> DEFINE c == Call(name, A[i].method, Under(x, A[i].path), A[i].handler)
<1>1. /\ i \in DOMAIN A /\ A[i].roles = R /\ c \in services
      /\ x \in Segments /\ A \in Seq(Routings) /\ Has(router, x, A)
  <2>1. \A p \in Mounts : p[1] \in Segments /\ p[2] \in Seq(Routings) /\ Has(router, p[1], p[2])
    BY RouterBuilt DEF Built
  <2> QED BY <2>1 DEF Sends
<1>2. A[i] \in Routings
  BY <1>1
<1>3. PICK j \in DOMAIN router : router[j] = Below(x, A[i])
  BY <1>1 DEF Has
<1>4. /\ router[j].path = c.path /\ router[j].method = c.method
      /\ router[j].handler = c.handler /\ router[j].roles = R /\ c.name = name
      /\ router[j].path \in Seq(Segments)
  BY <1>1, <1>2, <1>3, BelowFields DEF Call, Under
<1> HIDE DEF c
<1>5. Matches(router[j], c.method, c.path)
  BY <1>4 DEF Matches
<1>6. \A k \in 1..(j - 1) : ~ Matches(router[k], c.method, c.path)
  <2>1. router \in Seq(Routings) /\ Unshadowed(router)
    BY RouterBuilt DEF Built
  <2>2. \A k \in 1..(j - 1) : k \in DOMAIN router /\ k < j
    BY <2>1
  <2> QED BY <2>1, <2>2, <1>4 DEF Unshadowed, Hides
<1>7. router[j] \in Dispatched(c.method, c.path)
  BY <1>5, <1>6 DEF Dispatched
<1>8. c \in {d \in services : \E route \in Dispatched(d.method, d.path) :
                route.handler = d.handler /\ r \in route.roles}
  BY <1>1, <1>4, <1>7
<1> QED BY <1>4, <1>8 DEF ServedTo

\* The functions that are answered for every role of a set.
Serves(R, names) == \A r \in R : names \subseteq ServedTo[r]

LEMMA HealthServed ==
  /\ Serves(ANYONE, {"fetchHealth"})
<1>1. /\ Sends("fetchHealth", "health", healthRoutes, 1, ANYONE)
  BY OneMore DEF Sends, healthRoutes, Route, services, healthService
<1>2. <<"health", healthRoutes>> \in Mounts
  BY DEF Mounts
<1> QED BY <1>1, <1>2, Answered, RoleSets DEF Serves

LEMMA AuthServed ==
  /\ Serves(ANYONE, {"loginRequest", "registerRequest"})
<1>1. /\ Sends("loginRequest", "auth", authRoutes, 2, ANYONE)
      /\ Sends("registerRequest", "auth", authRoutes, 1, ANYONE)
  BY OneMore DEF Sends, authRoutes, Route, services, authService
<1>2. <<"auth", authRoutes>> \in Mounts
  BY DEF Mounts
<1> QED BY <1>1, <1>2, Answered, RoleSets DEF Serves

LEMMA CompanyServed ==
  /\ Serves(PLATFORM,
            {"listCompanies", "createCompany", "updateCompany", "setCompanyStatus"})
  /\ Serves({"cpo_admin", "operator"}, {"getMyCompany"})
  /\ Serves(STAFF_ROLES, {"getCompany"})
<1>1. /\ Sends("listCompanies", "companies", companyRoutes, 3, PLATFORM)
      /\ Sends("getMyCompany", "companies", companyRoutes, 1, {"cpo_admin", "operator"})
      /\ Sends("getCompany", "companies", companyRoutes, 4, STAFF_ROLES)
      /\ Sends("createCompany", "companies", companyRoutes, 2, PLATFORM)
  BY OneMore DEF Sends, companyRoutes, Route, services, companyService
<1>2. /\ Sends("updateCompany", "companies", companyRoutes, 5, PLATFORM)
      /\ Sends("setCompanyStatus", "companies", companyRoutes, 6, PLATFORM)
  BY OneMore DEF Sends, companyRoutes, Route, services, companyService
<1>3. <<"companies", companyRoutes>> \in Mounts
  BY DEF Mounts
<1> QED BY <1>1, <1>2, <1>3, Answered, RoleSets DEF Serves

LEMMA UserServed ==
  /\ Serves(WRITE_ROLES,
            {"listUsers", "getUser", "createStaffUser", "updateUser", "setUserStatus"})
  /\ Serves(ROLES, {"updateMyProfile"})
  /\ Serves(DRIVERS,
            {"listMyVehicles", "createMyVehicle", "updateMyVehicle",
             "deactivateMyVehicle"})
<1>1. /\ Sends("listUsers", "users", userRoutes, 7, WRITE_ROLES)
      /\ Sends("getUser", "users", userRoutes, 9, WRITE_ROLES)
      /\ Sends("createStaffUser", "users", userRoutes, 8, WRITE_ROLES)
      /\ Sends("updateUser", "users", userRoutes, 10, WRITE_ROLES)
  BY OneMore DEF Sends, userRoutes, Route, services, userService, vehicleService
<1>2. /\ Sends("setUserStatus", "users", userRoutes, 11, WRITE_ROLES)
      /\ Sends("updateMyProfile", "users", userRoutes, 1, ROLES)
      /\ Sends("listMyVehicles", "users", userRoutes, 2, DRIVERS)
      /\ Sends("createMyVehicle", "users", userRoutes, 3, DRIVERS)
  BY OneMore DEF Sends, userRoutes, Route, services, userService, vehicleService
<1>3. /\ Sends("updateMyVehicle", "users", userRoutes, 5, DRIVERS)
      /\ Sends("deactivateMyVehicle", "users", userRoutes, 6, DRIVERS)
  BY OneMore DEF Sends, userRoutes, Route, services, userService, vehicleService
<1>4. <<"users", userRoutes>> \in Mounts
  BY DEF Mounts
<1> QED BY <1>1, <1>2, <1>3, <1>4, Answered, RoleSets DEF Serves

LEMMA StationServed ==
  /\ Serves(STAFF_ROLES,
            {"listStations", "getStation", "getMapStations", "listStationCities_staff"})
  /\ Serves(WRITE_ROLES, {"createStation", "updateStation", "setStationStatus"})
  /\ Serves(ROLES, {"getPublicStations", "listStationCities_driver"})
<1>1. /\ Sends("listStations", "stations", stationRoutes, 5, STAFF_ROLES)
      /\ Sends("getStation", "stations", stationRoutes, 6, STAFF_ROLES)
      /\ Sends("createStation", "stations", stationRoutes, 7, WRITE_ROLES)
      /\ Sends("updateStation", "stations", stationRoutes, 8, WRITE_ROLES)
  BY OneMore DEF Sends, stationRoutes, Route, services, stationService
<1>2. /\ Sends("setStationStatus", "stations", stationRoutes, 9, WRITE_ROLES)
      /\ Sends("getMapStations", "stations", stationRoutes, 1, STAFF_ROLES)
      /\ Sends("getPublicStations", "stations", stationRoutes, 2, ROLES)
      /\ Sends("listStationCities_driver", "stations", stationRoutes, 3, ROLES)
  BY OneMore DEF Sends, stationRoutes, Route, services, stationService
<1>3. /\ Sends("listStationCities_staff", "stations", stationRoutes, 4, STAFF_ROLES)
  BY OneMore DEF Sends, stationRoutes, Route, services, stationService
<1>4. <<"stations", stationRoutes>> \in Mounts
  BY DEF Mounts
<1> QED BY <1>1, <1>2, <1>3, <1>4, Answered, RoleSets DEF Serves

LEMMA ChargerServed ==
  /\ Serves(STAFF_ROLES,
            {"listChargers", "getCharger", "getChargerConnection", "listConnectors"})
  /\ Serves(WRITE_ROLES,
            {"createCharger", "updateCharger", "setChargerStatus",
             "regenerateChargerToken", "createConnector", "setConnectorStatus"})
<1>1. /\ Sends("listChargers", "chargers", chargerRoutes, 8, STAFF_ROLES)
      /\ Sends("getCharger", "chargers", chargerRoutes, 10, STAFF_ROLES)
      /\ Sends("createCharger", "chargers", chargerRoutes, 9, WRITE_ROLES)
      /\ Sends("updateCharger", "chargers", chargerRoutes, 11, WRITE_ROLES)
  BY OneMore DEF Sends, chargerRoutes, Route, services, chargerService
<1>2. /\ Sends("setChargerStatus", "chargers", chargerRoutes, 12, WRITE_ROLES)
      /\ Sends("getChargerConnection", "chargers", chargerRoutes, 6, STAFF_ROLES)
      /\ Sends("regenerateChargerToken", "chargers", chargerRoutes, 7, WRITE_ROLES)
      /\ Sends("listConnectors", "chargers", chargerRoutes, 1, STAFF_ROLES)
  BY OneMore DEF Sends, chargerRoutes, Route, services, chargerService
<1>3. /\ Sends("createConnector", "chargers", chargerRoutes, 2, WRITE_ROLES)
      /\ Sends("setConnectorStatus", "chargers", chargerRoutes, 5, WRITE_ROLES)
  BY OneMore DEF Sends, chargerRoutes, Route, services, chargerService
<1>4. <<"chargers", chargerRoutes>> \in Mounts
  BY DEF Mounts
<1> QED BY <1>1, <1>2, <1>3, <1>4, Answered, RoleSets DEF Serves

LEMMA SessionServed ==
  /\ Serves(ROLES,
            {"listSessions", "getSession", "getSessionReadings",
             "getConnectorForCharging", "listStationConnectors", "stopSession"})
  /\ Serves(DRIVERS, {"getActiveSession", "startSession"})
<1>1. /\ Sends("listSessions", "charging", sessionRoutes, 5, ROLES)
      /\ Sends("getSession", "charging", sessionRoutes, 6, ROLES)
      /\ Sends("getActiveSession", "charging", sessionRoutes, 4, DRIVERS)
      /\ Sends("getSessionReadings", "charging", sessionRoutes, 7, ROLES)
  BY OneMore DEF Sends, sessionRoutes, Route, services, sessionService
<1>2. /\ Sends("getConnectorForCharging", "charging", sessionRoutes, 1, ROLES)
      /\ Sends("listStationConnectors", "charging", sessionRoutes, 2, ROLES)
      /\ Sends("startSession", "charging", sessionRoutes, 3, DRIVERS)
      /\ Sends("stopSession", "charging", sessionRoutes, 8, ROLES)
  BY OneMore DEF Sends, sessionRoutes, Route, services, sessionService
<1>3. <<"charging", sessionRoutes>> \in Mounts
  BY DEF Mounts
<1> QED BY <1>1, <1>2, <1>3, Answered, RoleSets DEF Serves

LEMMA TariffServed ==
  /\ Serves(STAFF_ROLES, {"listTariffs", "getTariff"})
  /\ Serves(WRITE_ROLES, {"createTariff", "updateTariff", "setTariffStatus"})
<1>1. /\ Sends("listTariffs", "tariffs", tariffRoutes, 1, STAFF_ROLES)
      /\ Sends("getTariff", "tariffs", tariffRoutes, 3, STAFF_ROLES)
      /\ Sends("createTariff", "tariffs", tariffRoutes, 2, WRITE_ROLES)
      /\ Sends("updateTariff", "tariffs", tariffRoutes, 4, WRITE_ROLES)
      /\ Sends("setTariffStatus", "tariffs", tariffRoutes, 5, WRITE_ROLES)
  BY OneMore DEF Sends, tariffRoutes, Route, services, tariffService
<1>2. <<"tariffs", tariffRoutes>> \in Mounts
  BY DEF Mounts
<1> QED BY <1>1, <1>2, Answered, RoleSets DEF Serves

LEMMA WalletServed ==
  /\ Serves(DRIVERS,
            {"getWallet", "listWalletTransactions", "createRechargeOrder",
             "verifyRecharge"})
<1>1. /\ Sends("getWallet", "wallet", walletRouter, 1, DRIVERS)
      /\ Sends("listWalletTransactions", "wallet", walletRouter, 2, DRIVERS)
      /\ Sends("createRechargeOrder", "wallet", walletRouter, 3, DRIVERS)
      /\ Sends("verifyRecharge", "wallet", walletRouter, 4, DRIVERS)
  BY OneMore DEF Sends, walletRouter, Route, services, walletService
<1>2. <<"wallet", walletRouter>> \in Mounts
  BY DEF Mounts
<1> QED BY <1>1, <1>2, Answered, RoleSets DEF Serves

LEMMA PaymentServed ==
  /\ Serves({"super_admin", "cpo_admin", "driver"}, {"listPayments"})
<1>1. 
      /\ Sends("listPayments", "payments", paymentRoutes, 2, {"super_admin", "cpo_admin", "driver"})
  BY OneMore DEF Sends, paymentRoutes, Route, services, walletService
<1>2. <<"payments", paymentRoutes>> \in Mounts
  BY DEF Mounts
<1> QED BY <1>1, <1>2, Answered, RoleSets DEF Serves

LEMMA ComplaintServed ==
  /\ Serves(ROLES, {"listComplaints", "getComplaint"})
  /\ Serves(DRIVERS, {"createComplaint", "confirmComplaint", "reopenComplaint"})
  /\ Serves(STAFF_ROLES, {"updateComplaint", "setComplaintStatus", "assignComplaint"})
<1>1. /\ Sends("listComplaints", "complaints", complaintRoutes, 2, ROLES)
      /\ Sends("getComplaint", "complaints", complaintRoutes, 3, ROLES)
      /\ Sends("createComplaint", "complaints", complaintRoutes, 1, DRIVERS)
      /\ Sends("updateComplaint", "complaints", complaintRoutes, 4, STAFF_ROLES)
  BY OneMore DEF Sends, complaintRoutes, Route, services, complaintService
<1>2. /\ Sends("setComplaintStatus", "complaints", complaintRoutes, 5, STAFF_ROLES)
      /\ Sends("confirmComplaint", "complaints", complaintRoutes, 7, DRIVERS)
      /\ Sends("reopenComplaint", "complaints", complaintRoutes, 8, DRIVERS)
      /\ Sends("assignComplaint", "complaints", complaintRoutes, 6, STAFF_ROLES)
  BY OneMore DEF Sends, complaintRoutes, Route, services, complaintService
<1>3. <<"complaints", complaintRoutes>> \in Mounts
  BY DEF Mounts
<1> QED BY <1>1, <1>2, <1>3, Answered, RoleSets DEF Serves

LEMMA NotificationServed ==
  /\ Serves(ROLES,
            {"listNotifications", "getUnreadCount", "markAsRead", "markAllAsRead"})
<1>1. /\ Sends("listNotifications", "notifications", notificationRoutes, 1, ROLES)
      /\ Sends("getUnreadCount", "notifications", notificationRoutes, 2, ROLES)
      /\ Sends("markAsRead", "notifications", notificationRoutes, 4, ROLES)
      /\ Sends("markAllAsRead", "notifications", notificationRoutes, 3, ROLES)
  BY OneMore DEF Sends, notificationRoutes, Route, services, notificationService
<1>2. <<"notifications", notificationRoutes>> \in Mounts
  BY DEF Mounts
<1> QED BY <1>1, <1>2, Answered, RoleSets DEF Serves

LEMMA AnalyticsServed ==
  /\ Serves(STAFF_ROLES, {"getOverview", "getSessionSeries", "getTopStations"})
  /\ Serves(WRITE_ROLES, {"getRevenueSeries"})
<1>1. /\ Sends("getOverview", "analytics", analyticsRoutes, 1, STAFF_ROLES)
      /\ Sends("getSessionSeries", "analytics", analyticsRoutes, 2, STAFF_ROLES)
      /\ Sends("getRevenueSeries", "analytics", analyticsRoutes, 3, WRITE_ROLES)
      /\ Sends("getTopStations", "analytics", analyticsRoutes, 4, STAFF_ROLES)
  BY OneMore DEF Sends, analyticsRoutes, Route, services, analyticsService
<1>2. <<"analytics", analyticsRoutes>> \in Mounts
  BY DEF Mounts
<1> QED BY <1>1, <1>2, Answered, RoleSets DEF Serves

\* The functions the pages use, by who is answered.
PublicCalls ==
  {"fetchHealth", "loginRequest", "registerRequest"}
CommonCalls ==
  {"getComplaint", "getConnectorForCharging", "getPublicStations", "getSession",
   "getSessionReadings", "getUnreadCount", "listComplaints", "listNotifications",
   "listSessions", "listStationCities_driver", "listStationConnectors", "markAllAsRead",
   "markAsRead", "stopSession", "updateMyProfile"}
StaffCalls ==
  {"assignComplaint", "getCharger", "getChargerConnection", "getCompany",
   "getMapStations", "getOverview", "getSessionSeries", "getStation", "getTariff",
   "getTopStations", "listChargers", "listConnectors", "listStationCities_staff",
   "listStations", "listTariffs", "setComplaintStatus", "updateComplaint"}
WriteCalls ==
  {"createCharger", "createConnector", "createStaffUser", "createStation",
   "createTariff", "getRevenueSeries", "getUser", "listPayments", "listUsers",
   "regenerateChargerToken", "setChargerStatus", "setConnectorStatus",
   "setStationStatus", "setTariffStatus", "setUserStatus", "updateCharger",
   "updateStation", "updateTariff", "updateUser"}
PlatformCalls ==
  {"createCompany", "listCompanies", "setCompanyStatus", "updateCompany"}
CompanyCalls ==
  {"getMyCompany"}
DriverCalls ==
  {"confirmComplaint", "createComplaint", "createMyVehicle", "createRechargeOrder",
   "deactivateMyVehicle", "getActiveSession", "getWallet", "listMyVehicles",
   "listWalletTransactions", "reopenComplaint", "startSession", "updateMyVehicle",
   "verifyRecharge"}

LEMMA Answers ==
  /\ Serves(ANYONE, PublicCalls)
  /\ Serves(ROLES, CommonCalls)
  /\ Serves(STAFF_ROLES, StaffCalls)
  /\ Serves(WRITE_ROLES, WriteCalls)
  /\ Serves(PLATFORM, PlatformCalls)
  /\ Serves({"cpo_admin", "operator"}, CompanyCalls)
  /\ Serves(DRIVERS, DriverCalls)
  BY HealthServed, AuthServed, CompanyServed, UserServed, StationServed, ChargerServed,
     SessionServed, TariffServed, WalletServed, PaymentServed, ComplaintServed,
     NotificationServed, AnalyticsServed
  DEF Serves, WRITE_ROLES, PublicCalls, CommonCalls, StaffCalls, WriteCalls,
      PlatformCalls, CompanyCalls, DriverCalls

-----------------------------------------------------------------------------
(* Who is let in where *)

\* A page is what its parts are, and what it shows is what they show.
IsPage(page) == page = Page(page.roles, page.calls, page.links)

LEMMA ShownParts ==
  ASSUME NEW page, IsPage(page), NEW parts
  PROVE  /\ IsPage(Showing(page, parts)) /\ Showing(page, parts).roles = page.roles
         /\ Showing(page, parts).calls = page.calls \cup UNION {q.calls : q \in parts}
         /\ Showing(page, parts).links = page.links \cup UNION {q.links : q \in parts}
<1> DEFINE C == page.calls \cup UNION {q.calls : q \in parts}
           L == page.links \cup UNION {q.links : q \in parts}
           fields == [roles : {page.roles}, calls : {C}, links : {L}]
<1>1. Showing(page, parts) = [page EXCEPT !.calls = C, !.links = L]
  BY DEF Showing
<1> HIDE DEF C, L
<1>2. Showing(page, parts) \in fields
  BY <1>1 DEF IsPage, Page
<1>3. Page(page.roles, C, L) \in fields
  BY DEF Page
<1>4. Showing(page, parts) = Page(page.roles, C, L)
  BY <1>2, <1>3 DEF Page
<1> QED BY <1>4 DEF IsPage, Page, C, L

LEMMA PageFields ==
  ASSUME NEW R, NEW C, NEW L
  PROVE  /\ IsPage(Page(R, C, L)) /\ Page(R, C, L).roles = R /\ Page(R, C, L).calls = C
         /\ Page(R, C, L).links = L
  BY DEF IsPage, Page

\* The pages whose guard lets a role in: the pages themselves, by path.
LEMMA Contents ==
  ASSUME NEW r
  PROVE  /\ Content("/", r) = SystemStatusPage /\ Content("/login", r) = LoginPage
         /\ Content("/register", r) = RegisterPage /\ Content("/dashboard", r) = DashboardPage(r)
         /\ Content("/monitor", r) = MonitorPage(r) /\ Content("/sessions", r) = SessionsPage(r)
         /\ Content("/sessions/[sessionId]", r) = SessionDetailPage(r)
         /\ Content("/stations", r) = StationListPage(r)
         /\ Content("/stations/new", r) = CreateStationPage(r)
         /\ Content("/stations/[stationId]", r) = StationDetailPage(r)
         /\ Content("/chargers", r) = ChargerListPage(r)
         /\ Content("/chargers/new", r) = CreateChargerPage(r)
         /\ Content("/chargers/[chargerId]", r) = ChargerDetailPage(r)
         /\ Content("/map", r) = MapPage(r) /\ Content("/companies", r) = CompanyListPage
         /\ Content("/companies/new", r) = CreateCompanyPage
         /\ Content("/companies/[companyId]", r) = CompanyDetailPage(r)
         /\ Content("/my-company", r) = MyCompanyPage /\ Content("/users", r) = UserListPage(r)
         /\ Content("/users/new", r) = CreateUserPage(r)
         /\ Content("/users/[userId]", r) = UserDetailPage
         /\ Content("/tariffs", r) = TariffsPage(r) /\ Content("/tariffs/new", r) = NewTariffPage(r)
         /\ Content("/tariffs/[tariffId]", r) = TariffDetailPage(r)
         /\ Content("/analytics", r) = AnalyticsPage(r) /\ Content("/payments", r) = Payments(r)
         /\ Content("/charge", r) = ChargePage /\ Content("/wallet", r) = WalletPage
         /\ Content("/my-vehicles", r) = MyVehiclesPage /\ Content("/profile", r) = ProfilePage
         /\ Content("/notifications", r) = NotificationsPage(r)
         /\ Content("/complaints", r) = ComplaintsPage(r)
         /\ Content("/complaints/new", r) = NewComplaintPage
         /\ Content("/complaints/[complaintId]", r) = ComplaintDetailPage(r)
  BY DEF Content
\* The paths, by whom their pages are for.
CommonPaths == {"/dashboard", "/sessions", "/sessions/[sessionId]", "/map", "/profile",
                "/notifications", "/complaints", "/complaints/[complaintId]"}
StaffPaths == {"/monitor", "/stations", "/stations/[stationId]", "/chargers",
               "/chargers/[chargerId]", "/companies/[companyId]", "/tariffs",
               "/tariffs/[tariffId]", "/analytics"}
WritePaths == {"/stations/new", "/chargers/new", "/users", "/users/new",
               "/users/[userId]", "/tariffs/new", "/payments"}
PlatformPaths == {"/companies", "/companies/new"}
CompanyPaths == {"/my-company"}
DriverPaths == {"/charge", "/wallet", "/my-vehicles", "/complaints/new"}

LEMMA GuardRoles ==
  ASSUME NEW R, NEW C, NEW L
  PROVE  Page(R, C, L).roles = R /\ \A parts : Showing(Page(R, C, L), parts).roles = R
  BY PageFields, ShownParts

LEMMA Guards ==
  ASSUME NEW r
  PROVE  /\ \A p \in BARE_ROUTES : Content(p, r).roles = ANYONE
         /\ \A p \in CommonPaths : Content(p, r).roles = ROLES
         /\ \A p \in StaffPaths : Content(p, r).roles = STAFF_ROLES
         /\ \A p \in WritePaths : Content(p, r).roles = WRITE_ROLES
         /\ \A p \in PlatformPaths : Content(p, r).roles = PLATFORM
         /\ \A p \in CompanyPaths : Content(p, r).roles = {"cpo_admin", "operator"}
         /\ \A p \in DriverPaths : Content(p, r).roles = DRIVERS
<1>1. /\ SystemStatusPage.roles = ANYONE /\ LoginPage.roles = ANYONE
      /\ RegisterPage.roles = ANYONE
  BY GuardRoles DEF SystemStatusPage, LoginPage, RegisterPage
<1>2. /\ DashboardPage(r).roles = ROLES /\ SessionsPage(r).roles = ROLES
      /\ SessionDetailPage(r).roles = ROLES /\ MapPage(r).roles = ROLES
      /\ ProfilePage.roles = ROLES /\ NotificationsPage(r).roles = ROLES
      /\ ComplaintsPage(r).roles = ROLES /\ ComplaintDetailPage(r).roles = ROLES
  BY GuardRoles DEF DashboardPage, SessionsPage, SessionDetailPage, MapPage, ProfilePage,
                  NotificationsPage, ComplaintsPage, ComplaintDetailPage
<1>3. /\ MonitorPage(r).roles = STAFF_ROLES /\ StationListPage(r).roles = STAFF_ROLES
      /\ StationDetailPage(r).roles = STAFF_ROLES
      /\ ChargerListPage(r).roles = STAFF_ROLES
      /\ ChargerDetailPage(r).roles = STAFF_ROLES
      /\ CompanyDetailPage(r).roles = STAFF_ROLES /\ TariffsPage(r).roles = STAFF_ROLES
      /\ TariffDetailPage(r).roles = STAFF_ROLES /\ AnalyticsPage(r).roles = STAFF_ROLES
  BY GuardRoles DEF MonitorPage, StationListPage, StationDetailPage, ChargerListPage,
                  ChargerDetailPage, CompanyDetailPage, TariffsPage, TariffDetailPage,
                  AnalyticsPage
<1>4. /\ CreateStationPage(r).roles = WRITE_ROLES
      /\ CreateChargerPage(r).roles = WRITE_ROLES /\ UserListPage(r).roles = WRITE_ROLES
      /\ CreateUserPage(r).roles = WRITE_ROLES /\ UserDetailPage.roles = WRITE_ROLES
      /\ NewTariffPage(r).roles = WRITE_ROLES /\ Payments(r).roles = WRITE_ROLES
  BY GuardRoles DEF CreateStationPage, CreateChargerPage, UserListPage, CreateUserPage,
                  UserDetailPage, NewTariffPage, Payments
<1>5. /\ CompanyListPage.roles = PLATFORM /\ CreateCompanyPage.roles = PLATFORM
  BY GuardRoles DEF CompanyListPage, CreateCompanyPage
<1>6. /\ MyCompanyPage.roles = {"cpo_admin", "operator"}
  BY GuardRoles DEF MyCompanyPage
<1>7. /\ ChargePage.roles = DRIVERS /\ WalletPage.roles = DRIVERS
      /\ MyVehiclesPage.roles = DRIVERS /\ NewComplaintPage.roles = DRIVERS
  BY GuardRoles DEF ChargePage, WalletPage, MyVehiclesPage, NewComplaintPage
<1> QED BY Contents, <1>1, <1>2, <1>3, <1>4, <1>5, <1>6, <1>7
   DEF BARE_ROUTES, CommonPaths, StaffPaths, WritePaths, PlatformPaths, CompanyPaths, DriverPaths

\* The pages a role is let into.
Open(r) == {p \in Paths : RequireAuth(p, r) = p}

LEMMA PathsAre ==
  Paths = BARE_ROUTES \cup CommonPaths \cup StaffPaths \cup WritePaths \cup PlatformPaths
            \cup CompanyPaths \cup DriverPaths
  BY DEF Paths, BARE_ROUTES, CommonPaths, StaffPaths, WritePaths, PlatformPaths,
         CompanyPaths, DriverPaths

LEMMA Doors ==
  ASSUME NEW r \in ROLES
  PROVE  /\ "/" \in Open(r) /\ CommonPaths \subseteq Open(r)
         /\ r \in STAFF_ROLES => StaffPaths \subseteq Open(r)
         /\ r \in WRITE_ROLES => WritePaths \subseteq Open(r)
         /\ r \in PLATFORM => PlatformPaths \subseteq Open(r)
         /\ r \in {"cpo_admin", "operator"} => CompanyPaths \subseteq Open(r)
         /\ r \in DRIVERS => DriverPaths \subseteq Open(r)
<1>1. \A p \in Paths : r \in Content(p, r).roles /\ p \notin {"/login", "/register"} => p \in Open(r)
  BY DEF Open, RequireAuth
<1>2. {"/login", "/register"} \cap (CommonPaths \cup StaffPaths \cup WritePaths \cup PlatformPaths
                                      \cup CompanyPaths \cup DriverPaths) = {}
  BY DEF CommonPaths, StaffPaths, WritePaths, PlatformPaths, CompanyPaths, DriverPaths
<1>3. "/" \in BARE_ROUTES /\ "/" \notin {"/login", "/register"} /\ r \in ANYONE
  BY DEF BARE_ROUTES, ANYONE
<1> QED BY <1>1, <1>2, <1>3, PathsAre, Guards

\* Nobody is sent on twice.
LEMMA Settled ==
  ASSUME NEW r \in ANYONE, NEW p \in Paths
  PROVE  RequireAuth(RequireAuth(p, r), r) = RequireAuth(p, r)
<1>1. Content("/login", r).roles = ANYONE /\ Content("/dashboard", r).roles = ROLES
  BY Guards DEF BARE_ROUTES, CommonPaths
<1>2. RequireAuth("/login", Visitor) = "/login"
  BY Guards DEF BARE_ROUTES, RequireAuth, ANYONE
<1>3. r # Visitor => RequireAuth("/dashboard", r) = "/dashboard"
  BY <1>1 DEF RequireAuth, ANYONE
<1>4. \/ RequireAuth(p, r) = "/login" /\ r = Visitor
      \/ RequireAuth(p, r) = "/dashboard" /\ r # Visitor
      \/ RequireAuth(p, r) = p
  BY DEF RequireAuth
<1> QED BY <1>2, <1>3, <1>4

-----------------------------------------------------------------------------
(* The pages *)

\* What a role may ask for, and where it may go.
LEMMA Allowed ==
  ASSUME NEW r \in ROLES
  PROVE  /\ CommonCalls \subseteq ServedTo[r] /\ CommonPaths \cup {"/"} \subseteq Open(r)
         /\ r \in STAFF_ROLES => StaffCalls \subseteq ServedTo[r] /\ StaffPaths \subseteq Open(r)
         /\ r \in WRITE_ROLES => WriteCalls \subseteq ServedTo[r] /\ WritePaths \subseteq Open(r)
         /\ r \in PLATFORM => PlatformCalls \subseteq ServedTo[r] /\ PlatformPaths \subseteq Open(r)
         /\ r \in {"cpo_admin", "operator"} =>
              CompanyCalls \subseteq ServedTo[r] /\ CompanyPaths \subseteq Open(r)
         /\ r \in DRIVERS => DriverCalls \subseteq ServedTo[r] /\ DriverPaths \subseteq Open(r)
  BY Answers, Doors DEF Serves

\* A page of this role asks and leads nowhere else.
Keeps(page, r) ==
  IsPage(page) /\ page.calls \subseteq ServedTo[r] /\ page.links \subseteq Open(r)

LEMMA PageKeeps ==
  ASSUME NEW r, NEW R, NEW C, NEW L, C \subseteq ServedTo[r], L \subseteq Open(r)
  PROVE  Keeps(Page(R, C, L), r)
  BY PageFields DEF Keeps

LEMMA ShowingKeeps ==
  ASSUME NEW r, NEW page, NEW parts, Keeps(page, r), \A q \in parts : Keeps(q, r)
  PROVE  Keeps(Showing(page, parts), r)
  BY ShownParts DEF Keeps

LEMMA FrameKeeps ==
  ASSUME NEW r \in ROLES, NEW p
  PROVE  Keeps(AppShell(p, r), r)
<1>1. Keeps(Sidebar(r), r)
  <2>1. navigationFor(r) \cup {"/"} \subseteq Open(r)
    BY Allowed DEF navigationFor, isDriver, isPlatformAdmin, canManage, For, ROLES, STAFF_ROLES,
      WRITE_ROLES, PLATFORM, DRIVERS, CommonPaths, StaffPaths, WritePaths, PlatformPaths,
      CompanyPaths, DriverPaths
  <2> QED BY <2>1, PageKeeps DEF Sidebar
<1>2. Keeps(NoPage, r)
  BY PageKeeps DEF NoPage
<1>3. Keeps(Topbar(r), r)
  <2>1. {hrefFor(t) : t \in Referenced(r)} \cup {"/notifications"} \subseteq Open(r)
    BY Allowed DEF hrefFor, Referenced, isDriver, ROLES, STAFF_ROLES, DRIVERS, CommonPaths,
      StaffPaths, DriverPaths
  <2>2. Keeps(NotificationBell(r), r)
    BY <2>1, Allowed, PageKeeps DEF NotificationBell, CommonCalls
  <2> QED BY <1>2, <2>2, ShowingKeeps DEF Topbar
<1> QED BY <1>1, <1>2, <1>3, ShowingKeeps DEF AppShell

LEMMA PartsKeep ==
  ASSUME NEW r \in ROLES
  PROVE  /\ Keeps(CompanyFilter(r), r)
         /\ Keeps(StationForm(r), r)
         /\ Keeps(RelatedComplaints, r)
         /\ Keeps(SessionRow, r)
         /\ Keeps(ComplaintRow, r)
<1> USE Allowed, PageKeeps, ShowingKeeps
    DEF ROLES, STAFF_ROLES, WRITE_ROLES, PLATFORM, DRIVERS, isDriver, isPlatformAdmin,
        canManage, For, CommonCalls, StaffCalls, WriteCalls, PlatformCalls, CompanyCalls,
        DriverCalls, CommonPaths, StaffPaths, WritePaths, PlatformPaths, CompanyPaths,
        DriverPaths
<1>1. Keeps(CompanyFilter(r), r)
  BY DEF CompanyFilter
<1>2. Keeps(StationForm(r), r)
  BY DEF StationForm
<1>3. Keeps(RelatedComplaints, r)
  BY DEF RelatedComplaints
<1>4. Keeps(SessionRow, r)
  BY DEF SessionRow
<1>5. Keeps(ComplaintRow, r)
  BY DEF ComplaintRow
<1> QED BY <1>1, <1>2, <1>3, <1>4, <1>5

LEMMA DriverPagesKeep ==
  ASSUME NEW r \in ROLES, r \in DRIVERS
  PROVE  /\ Keeps(DriverHome, r)
         /\ Keeps(ChargePage, r)
         /\ Keeps(WalletPage, r)
         /\ Keeps(MyVehiclesPage, r)
         /\ Keeps(NewComplaintPage, r)
<1> USE Allowed, PageKeeps, ShowingKeeps
    DEF ROLES, STAFF_ROLES, WRITE_ROLES, PLATFORM, DRIVERS, isDriver, isPlatformAdmin,
        canManage, For, CommonCalls, StaffCalls, WriteCalls, PlatformCalls, CompanyCalls,
        DriverCalls, CommonPaths, StaffPaths, WritePaths, PlatformPaths, CompanyPaths,
        DriverPaths
<1>1. Keeps(DriverHome, r)
  BY DEF DriverHome
<1>2. Keeps(ChargePage, r)
  BY DEF ChargePage
<1>3. Keeps(WalletPage, r)
  BY DEF WalletPage
<1>4. Keeps(MyVehiclesPage, r)
  BY DEF MyVehiclesPage
<1>5. Keeps(NewComplaintPage, r)
  BY DEF NewComplaintPage
<1> QED BY <1>1, <1>2, <1>3, <1>4, <1>5

LEMMA StaffPartsKeep ==
  ASSUME NEW r \in ROLES, r \in STAFF_ROLES
  PROVE  /\ Keeps(ChargerForm(r), r)
         /\ Keeps(FleetStatus, r)
         /\ Keeps(ActiveSessions, r)
         /\ Keeps(buildActivity(r), r)
         /\ Keeps(OcppSection(r), r)
         /\ Keeps(ConnectorSection(r), r)
<1> USE Allowed, PageKeeps, ShowingKeeps
    DEF ROLES, STAFF_ROLES, WRITE_ROLES, PLATFORM, DRIVERS, isDriver, isPlatformAdmin,
        canManage, For, CommonCalls, StaffCalls, WriteCalls, PlatformCalls, CompanyCalls,
        DriverCalls, CommonPaths, StaffPaths, WritePaths, PlatformPaths, CompanyPaths,
        DriverPaths
<1>1. Keeps(ChargerForm(r), r)
  BY DEF ChargerForm
<1>2. Keeps(FleetStatus, r)
  BY DEF FleetStatus
<1>3. Keeps(ActiveSessions, r)
  BY DEF ActiveSessions
<1>4. Keeps(buildActivity(r), r)
  BY DEF buildActivity
<1>5. Keeps(OcppSection(r), r)
  BY DEF OcppSection
<1>6. Keeps(ConnectorSection(r), r)
  BY DEF ConnectorSection
<1> QED BY <1>1, <1>2, <1>3, <1>4, <1>5, <1>6

LEMMA StaffPagesKeep ==
  ASSUME NEW r \in ROLES, r \in STAFF_ROLES
  PROVE  /\ Keeps(OperationsDashboard(r), r)
         /\ Keeps(MonitorPage(r), r)
         /\ Keeps(StationListPage(r), r)
         /\ Keeps(StationDetailPage(r), r)
         /\ Keeps(ChargerListPage(r), r)
         /\ Keeps(ChargerDetailPage(r), r)
         /\ Keeps(CompanyDetailPage(r), r)
         /\ Keeps(TariffsPage(r), r)
         /\ Keeps(TariffDetailPage(r), r)
         /\ Keeps(AnalyticsPage(r), r)
<1> USE Allowed, PageKeeps, ShowingKeeps
    DEF ROLES, STAFF_ROLES, WRITE_ROLES, PLATFORM, DRIVERS, isDriver, isPlatformAdmin,
        canManage, For, CommonCalls, StaffCalls, WriteCalls, PlatformCalls, CompanyCalls,
        DriverCalls, CommonPaths, StaffPaths, WritePaths, PlatformPaths, CompanyPaths,
        DriverPaths
<1>1. Keeps(OperationsDashboard(r), r)
  BY StaffPartsKeep DEF OperationsDashboard
<1>2. Keeps(MonitorPage(r), r)
  BY PartsKeep DEF MonitorPage
<1>3. Keeps(StationListPage(r), r)
  BY PartsKeep DEF StationListPage
<1>4. Keeps(StationDetailPage(r), r)
  <2>1. Keeps(StationDetails(r), r)
    BY PartsKeep DEF StationDetails
  <2>. QED BY <2>1, PartsKeep DEF StationDetailPage
<1>5. Keeps(ChargerListPage(r), r)
  BY PartsKeep DEF ChargerListPage
<1>6. Keeps(ChargerDetailPage(r), r)
  <2>1. Keeps(ChargerDetails(r), r)
    BY PartsKeep, StaffPartsKeep DEF ChargerDetails
  <2>. QED BY <2>1, PartsKeep DEF ChargerDetailPage
<1>7. Keeps(CompanyDetailPage(r), r)
  BY DEF CompanyDetailPage
<1>8. Keeps(TariffsPage(r), r)
  BY PartsKeep DEF TariffsPage
<1>9. Keeps(TariffDetailPage(r), r)
  BY DEF TariffDetailPage
<1>10. Keeps(AnalyticsPage(r), r)
  BY DEF AnalyticsPage
<1> QED BY <1>1, <1>2, <1>3, <1>4, <1>5, <1>6, <1>7, <1>8, <1>9, <1>10

LEMMA WritePagesKeep ==
  ASSUME NEW r \in ROLES, r \in WRITE_ROLES
  PROVE  /\ Keeps(CreateStationPage(r), r)
         /\ Keeps(CreateChargerPage(r), r)
         /\ Keeps(UserListPage(r), r)
         /\ Keeps(CreateUserPage(r), r)
         /\ Keeps(UserDetailPage, r)
         /\ Keeps(NewTariffPage(r), r)
         /\ Keeps(Payments(r), r)
<1> USE Allowed, PageKeeps, ShowingKeeps
    DEF ROLES, STAFF_ROLES, WRITE_ROLES, PLATFORM, DRIVERS, isDriver, isPlatformAdmin,
        canManage, For, CommonCalls, StaffCalls, WriteCalls, PlatformCalls, CompanyCalls,
        DriverCalls, CommonPaths, StaffPaths, WritePaths, PlatformPaths, CompanyPaths,
        DriverPaths
<1>1. Keeps(CreateStationPage(r), r)
  BY PartsKeep DEF CreateStationPage
<1>2. Keeps(CreateChargerPage(r), r)
  BY StaffPartsKeep DEF CreateChargerPage
<1>3. Keeps(UserListPage(r), r)
  BY PartsKeep DEF UserListPage
<1>4. Keeps(CreateUserPage(r), r)
  BY DEF CreateUserPage
<1>5. Keeps(UserDetailPage, r)
  BY DEF UserDetailPage
<1>6. Keeps(NewTariffPage(r), r)
  BY DEF NewTariffPage
<1>7. Keeps(Payments(r), r)
  BY PartsKeep DEF Payments
<1> QED BY <1>1, <1>2, <1>3, <1>4, <1>5, <1>6, <1>7

LEMMA PlatformPagesKeep ==
  ASSUME NEW r \in ROLES, r \in PLATFORM
  PROVE  /\ Keeps(CompanyListPage, r)
         /\ Keeps(CreateCompanyPage, r)
<1> USE Allowed, PageKeeps, ShowingKeeps
    DEF ROLES, STAFF_ROLES, WRITE_ROLES, PLATFORM, DRIVERS, isDriver, isPlatformAdmin,
        canManage, For, CommonCalls, StaffCalls, WriteCalls, PlatformCalls, CompanyCalls,
        DriverCalls, CommonPaths, StaffPaths, WritePaths, PlatformPaths, CompanyPaths,
        DriverPaths
<1>1. Keeps(CompanyListPage, r)
  BY DEF CompanyListPage
<1>2. Keeps(CreateCompanyPage, r)
  BY DEF CreateCompanyPage
<1> QED BY <1>1, <1>2

LEMMA CompanyPagesKeep ==
  ASSUME NEW r \in ROLES, r \in {"cpo_admin", "operator"}
  PROVE  /\ Keeps(MyCompanyPage, r)
<1> USE Allowed, PageKeeps, ShowingKeeps
    DEF ROLES, STAFF_ROLES, WRITE_ROLES, PLATFORM, DRIVERS, isDriver, isPlatformAdmin,
        canManage, For, CommonCalls, StaffCalls, WriteCalls, PlatformCalls, CompanyCalls,
        DriverCalls, CommonPaths, StaffPaths, WritePaths, PlatformPaths, CompanyPaths,
        DriverPaths
<1>1. Keeps(MyCompanyPage, r)
  BY DEF MyCompanyPage
<1> QED BY <1>1

LEMMA CommonPagesKeep ==
  ASSUME NEW r \in ROLES
  PROVE  /\ Keeps(DashboardPage(r), r)
         /\ Keeps(SessionsPage(r), r)
         /\ Keeps(SessionDetailPage(r), r)
         /\ Keeps(StationConnectors(r), r)
         /\ Keeps(MapPage(r), r)
         /\ Keeps(ProfilePage, r)
         /\ Keeps(NotificationsPage(r), r)
         /\ Keeps(ComplaintsPage(r), r)
         /\ Keeps(ComplaintDetailPage(r), r)
<1> USE Allowed, PageKeeps, ShowingKeeps
    DEF ROLES, STAFF_ROLES, WRITE_ROLES, PLATFORM, DRIVERS, isDriver, isPlatformAdmin,
        canManage, For, CommonCalls, StaffCalls, WriteCalls, PlatformCalls, CompanyCalls,
        DriverCalls, CommonPaths, StaffPaths, WritePaths, PlatformPaths, CompanyPaths,
        DriverPaths
<1>1. Keeps(DashboardPage(r), r)
  BY DriverPagesKeep, StaffPagesKeep DEF DashboardPage
<1>2. Keeps(SessionsPage(r), r)
  BY PartsKeep DEF SessionsPage
<1>3. Keeps(SessionDetailPage(r), r)
  <2>1. Keeps(SessionDetail(r), r)
    BY DEF SessionDetail
  <2>. QED BY <2>1 DEF SessionDetailPage
<1>4. Keeps(StationConnectors(r), r)
  BY DEF StationConnectors
<1>5. Keeps(MapPage(r), r)
  BY <1>4 DEF MapPage
<1>6. Keeps(ProfilePage, r)
  BY DEF ProfilePage
<1>7. Keeps(NotificationsPage(r), r)
  BY DEF NotificationsPage, hrefFor, Referenced
<1>8. Keeps(ComplaintsPage(r), r)
  BY PartsKeep DEF ComplaintsPage
<1>9. Keeps(ComplaintDetailPage(r), r)
  <2>1. Keeps(TicketDetails(r), r)
    BY DEF TicketDetails
  <2>2. CASE isDriver(r)
    <3>1. Keeps(DriverControls, r)
      BY <2>2 DEF DriverControls
    <3>. QED BY <2>1, <2>2, <3>1 DEF ComplaintDetailPage
  <2>3. CASE ~ isDriver(r)
    <3>1. Keeps(Assignment(r), r)
      BY <2>3 DEF Assignment
    <3>2. Keeps(StaffControls(r), r)
      BY <2>3, <3>1 DEF StaffControls
    <3>. QED BY <2>1, <2>3, <3>2 DEF ComplaintDetailPage
  <2>. QED BY <2>2, <2>3
<1> QED BY <1>1, <1>2, <1>3, <1>4, <1>5, <1>6, <1>7, <1>8, <1>9

\* Whoever a page lets in: what it offers them opens.
LEMMA ContentKeeps ==
  ASSUME NEW r \in ROLES, NEW p \in Paths \ BARE_ROUTES, r \in Content(p, r).roles
  PROVE  Keeps(Content(p, r), r)
<1>1. CASE p \in CommonPaths
  BY <1>1, Contents, CommonPagesKeep DEF CommonPaths
<1>2. CASE p \in StaffPaths
  BY <1>2, Guards, Contents, StaffPagesKeep DEF StaffPaths
<1>3. CASE p \in WritePaths
  BY <1>3, Guards, Contents, WritePagesKeep DEF WritePaths
<1>4. CASE p \in PlatformPaths
  BY <1>4, Guards, Contents, PlatformPagesKeep DEF PlatformPaths
<1>5. CASE p \in CompanyPaths
  BY <1>5, Guards, Contents, CompanyPagesKeep DEF CompanyPaths
<1>6. CASE p \in DriverPaths
  BY <1>6, Guards, Contents, DriverPagesKeep DEF DriverPaths
<1> QED BY <1>1, <1>2, <1>3, <1>4, <1>5, <1>6, PathsAre

LEMMA NothingBroken ==
  ASSUME NEW r \in ANYONE
  PROVE  Broken[r] = {}
<1>1. ASSUME NEW p \in Paths, RequireAuth(p, r) = p
      PROVE  /\ RootLayout(p, r).calls \subseteq ServedTo[r]
             /\ RootLayout(p, r).links \subseteq Paths
             /\ r # Visitor /\ p \notin BARE_ROUTES => RootLayout(p, r).links \subseteq Open(r)
  <2>1. CASE p \in BARE_ROUTES
    <3>1. AppShell(p, r) = NoPage
      BY <2>1 DEF AppShell
    <3>2. PublicCalls \subseteq ServedTo[r]
      BY Answers DEF Serves
    <3>3. /\ IsPage(Content(p, r)) /\ Content(p, r).calls \subseteq PublicCalls
          /\ Content(p, r).links \subseteq Paths
      BY <2>1, Contents, PageFields
      DEF BARE_ROUTES, SystemStatusPage, LoginPage, RegisterPage, PublicCalls, Paths
    <3> QED BY <2>1, <3>1, <3>2, <3>3, ShownParts, PageFields DEF RootLayout, NoPage
  <2>2. CASE p \notin BARE_ROUTES
    <3>1. r \in Content(p, r).roles
      BY <1>1, <2>2, Guards DEF RequireAuth, BARE_ROUTES, CommonPaths, ANYONE
    <3>2. r \in ROLES
      BY <2>2, <3>1, PathsAre, Guards DEF ROLES, STAFF_ROLES, WRITE_ROLES, PLATFORM, DRIVERS
    <3>3. Keeps(Content(p, r), r) /\ Keeps(AppShell(p, r), r)
      BY <2>2, <3>1, <3>2, ContentKeeps, FrameKeeps
    <3>4. Keeps(RootLayout(p, r), r)
      BY <3>3, ShowingKeeps DEF RootLayout
    <3> QED BY <3>4 DEF Keeps, Open
  <2> QED BY <2>1, <2>2
<1>2. Refused(r) = {}
  BY <1>1 DEF Refused
<1>3. ClosedDoors(r) = {}
  BY <1>1, Settled DEF ClosedDoors, Open
<1> QED BY <1>2, <1>3 DEF Broken

LEMMA TypedPages == TypeInv => PagesKeepTheirPromises
<1> SUFFICES ASSUME TypeInv PROVE PagesKeepTheirPromises
  OBVIOUS
<1>1. \A u \in DOMAIN users : users[u].role \in ROLES
  BY DEF TypeInv, TypeOK, UserDocs
<1>2. {Visitor} \cup {users[u].role : u \in DOMAIN users} \subseteq ANYONE
  BY <1>1 DEF ANYONE
<1> QED BY <1>2, NothingBroken DEF PagesKeepTheirPromises

\* No page offers what will not open: whatever it asks of the server for whoever
\* its guard lets in (layout/navigation.ts:16, RequireAuth.tsx) is dispatched to the
\* handler it is written for and allowed there, and every link leads to a page of
\* this role, whatever accounts there come to be.
THEOREM PromisesKept == Spec => []PagesKeepTheirPromises
<1>1. Spec => []TypeInv
  BY InitTyped, NextTyped, PTL DEF Spec
<1> QED BY <1>1, TypedPages, PTL

=============================================================================
