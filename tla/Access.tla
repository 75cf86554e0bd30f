------------------------------- MODULE Access -------------------------------
(***************************************************************************)
(* Accounts, companies and vehicles, and who is let in: the middlewares in *)
(* front of every handler, the handshake of a browser's live connection,   *)
(* and what suspending somebody does to both.                              *)
(*                                                                         *)
(* Sources: backend/src/middlewares (auth, role, companyScope), the auth,  *)
(* user, company and vehicle services with their routes, validators and    *)
(* models, and backend/src/realtime (auth, index, rooms, publisher).       *)
(*                                                                         *)
(* A request crosses several awaits: the account is read, then the company *)
(* (where the route asks for it), then the handler looks for a clash, then *)
(* it writes, and a suspension cuts live connections after its write.      *)
(* Every await is a step here and anything may happen between two of them. *)
(*                                                                         *)
(* Roles and companies of an account never change after it is created (no  *)
(* endpoint takes them), so a request's identity is its account's.         *)
(*                                                                         *)
(* Left out: passwords, tokens and their expiry (every account is taken to *)
(* hold a valid token), contact details and the endpoints that edit only   *)
(* those, list queries, and what a handler of another module does.         *)
(*                                                                         *)
(* Bounds: the ids (Users, Companies, Vehicles), the names tried, the      *)
(* requests at once (Slots) and ever (MaxRequests), the browsers' sockets. *)
(***************************************************************************)
EXTENDS Routes, FiniteSets

CONSTANTS
  Users, Companies, Vehicles,   \* the ids a collection may use
  Emails, Names, Plates,        \* what accounts, companies and cars are known by
  Accounts, Operators,          \* the accounts and the companies at the start
  Nobody, Nothing,
  Slots, MaxRequests, Sockets

COMPANY_SCOPED_ROLES == {"cpo_admin", "operator"}
ASSIGNABLE_COMPANY_ROLES == {"cpo_admin", "operator"}
Statuses == {"active", "suspended"}

ASSUME AccessAssumption ==
  /\ DOMAIN Accounts \subseteq Users
  /\ DOMAIN Operators \subseteq Companies
  /\ MaxRequests \in Nat
  /\ Nobody \notin Users /\ Nothing \notin Companies

\* At the start too, staff have a company and nobody else has.
InitialEmails == {Accounts[u].email : u \in DOMAIN Accounts}
InitialNames == {Operators[k].name : k \in DOMAIN Operators}
ASSUME StartAssumption ==
  /\ Accounts \in [DOMAIN Accounts -> [email : InitialEmails, role : ROLES,
                                      company : DOMAIN Operators \cup {Nothing},
                                      status : Statuses]]
  /\ Operators \in [DOMAIN Operators -> [name : InitialNames, status : Statuses]]
  /\ \A u \in DOMAIN Accounts :
       IF Accounts[u].role \in COMPANY_SCOPED_ROLES
       THEN Accounts[u].company \in DOMAIN Operators ELSE Accounts[u].company = Nothing

VARIABLES
  users, companies, vehicles,   \* the documents of each collection, by id
  request,                      \* the request in each slot
  requests,                     \* how many have been made
  late,     \* history: the requests that came after their sender was barred, by reason
  sockets   \* the live connection of each browser

documents == <<users, companies, vehicles>>
vars == <<documents, request, requests, late, sockets>>

-----------------------------------------------------------------------------
(* What may be asked, and of whom *)

Op(kind, id, name, role, to) ==
  [kind |-> kind, id |-> id, name |-> name, role |-> role, to |-> to]

\* The bodies the strict schemas let through: an edit of a car may leave its
\* plate out.  No schema has a role but that of staff creation, which cannot
\* name a driver or a platform administrator.
Requested ==
  {Op("createUser", Nothing, e, r, k) :
     e \in Emails, r \in ASSIGNABLE_COMPANY_ROLES, k \in DOMAIN companies}
    \cup {Op("setUserStatus", u, Nothing, Nothing, st) : u \in DOMAIN users, st \in Statuses}
    \cup {Op("createCompany", Nothing, n, Nothing, Nothing) : n \in Names}
    \cup {Op("updateCompany", k, n, Nothing, Nothing) : k \in DOMAIN companies, n \in Names}
    \cup {Op("setCompanyStatus", k, Nothing, Nothing, st) :
            k \in DOMAIN companies, st \in Statuses}
    \cup {Op("createVehicle", Nothing, n, Nothing, Nothing) : n \in Plates}
    \cup {Op("updateVehicle", v, n, Nothing, Nothing) :
            v \in DOMAIN vehicles, n \in Plates \cup {Nothing}}
    \cup {Op("deactivateVehicle", v, Nothing, Nothing, Nothing) : v \in DOMAIN vehicles}

\* The roles its route names, and whether it mounts requireActiveCompany.
authorize(kind) == router[RouteOf(kind)].roles
CompanyRoute(kind) == router[RouteOf(kind)].activeCompany

AsksForCompany(op, u) ==
  CompanyRoute(op.kind) /\ users[u].role \in COMPANY_SCOPED_ROLES

\* resolveCompanyScope and manageableUsersFilter: whom an administrator manages.
Manages(a, u) ==
  \/ users[a].role = "super_admin"
  \/ users[u].company = users[a].company /\ users[u].role \in COMPANY_SCOPED_ROLES

\* What a service refuses at once, from the identity and the body.
Acceptable(a, op) ==
  CASE op.kind = "createUser"    -> \/ users[a].role = "super_admin"
                                    \/ op.role = "operator" /\ op.to = users[a].company
    [] op.kind = "setUserStatus" -> op.id # a
    [] OTHER -> TRUE

-----------------------------------------------------------------------------
(* Names nobody else may have *)

\* Who in a collection already has a name.
Holders(kind, n) ==
  CASE kind \in {"createUser", "registerDriver"}   -> {u \in DOMAIN users : users[u].email = n}
    [] kind \in {"createCompany", "updateCompany"} -> {k \in DOMAIN companies : companies[k].name = n}
    [] kind \in {"createVehicle", "updateVehicle"} -> {v \in DOMAIN vehicles : vehicles[v].plate = n}

\* A body without the name clashes with nobody.
Named(op) == op.name # Nothing
Clashes(op) == Named(op) /\ Holders(op.kind, op.name) \ {op.id} # {}

\* The unique indexes on email, company name and registration number.
IndexAdmits(op) == ~ Clashes(op)

\* Handlers that look for a clash before they write, when the body has a name.
Checked == {"registerDriver", "createUser", "createCompany", "updateCompany",
            "createVehicle", "updateVehicle"}

-----------------------------------------------------------------------------
(* A request on its way in *)

Idle == [step |-> "idle", by |-> Nobody, op |-> Op("none", Nothing, Nothing, Nothing, Nothing)]

Goes(p, step) == request' = [request EXCEPT ![p].step = step]
Ends(p) == request' = [request EXCEPT ![p] = Idle]

\* An account that is suspended, or whose company is.
Suspended(u) ==
  \/ users[u].status # "active"
  \/ /\ users[u].role \in COMPANY_SCOPED_ROLES
     /\ companies[users[u].company].status # "active"

\* The reasons a request is not entitled to a handler.
Reasons == {"account", "company"}
Barred(why, r) ==
  /\ r.by # Nobody
  /\ IF why = "account" THEN users[r.by].status # "active"
     ELSE AsksForCompany(r.op, r.by) /\ companies[users[r.by].company].status # "active"

Arrive(p, u, op) ==
  /\ request[p] = Idle /\ requests < MaxRequests
  /\ requests' = requests + 1
  /\ request' = [request EXCEPT ![p] = [step |-> "authenticate", by |-> u, op |-> op]]
  /\ UNCHANGED <<documents, sockets>>

\* Registration is public: nobody sends it.
ArriveRegistration(p, e) ==
  /\ request[p] = Idle /\ requests < MaxRequests
  /\ requests' = requests + 1
  /\ request' = [request EXCEPT ![p] =
       [step |-> "check", by |-> Nobody,
        op |-> Op("registerDriver", Nothing, e, Nothing, Nothing)]]
  /\ UNCHANGED <<documents, sockets>>

\* The first thing the service awaits, unless it refuses at once.
Enters(p, r) ==
  IF ~ Acceptable(r.by, r.op) THEN Ends(p)
  ELSE Goes(p, IF r.op.kind \in Checked /\ Named(r.op) THEN "check" ELSE "write")

\* authenticate reads the account; authorize and the branch of
\* requireActiveCompany for the platform run in the same turn.
Authenticated_tokenOnly(r) == TRUE
Authenticated(r) == users[r.by].status = "active"

authenticate(p) ==
  LET r == request[p] IN
  /\ r.step = "authenticate"
  /\ IF ~ Authenticated(r) \/ users[r.by].role \notin authorize(r.op.kind) THEN Ends(p)
     ELSE IF AsksForCompany(r.op, r.by) THEN Goes(p, "company")
     ELSE Enters(p, r)
  /\ UNCHANGED <<documents, requests, sockets>>

requireActiveCompany(p) ==
  LET r == request[p] IN
  /\ r.step = "company"
  /\ IF companies[users[r.by].company].status = "active" THEN Enters(p, r) ELSE Ends(p)
  /\ UNCHANGED <<documents, requests, sockets>>

checkClash(p) ==
  LET r == request[p] IN
  /\ r.step = "check"
  /\ IF Clashes(r.op) THEN Ends(p) ELSE Goes(p, "write")
  /\ UNCHANGED <<documents, requests, sockets>>

-----------------------------------------------------------------------------
(* The writes *)

With(f, id, d) == [x \in DOMAIN f \cup {id} |-> IF x = id THEN d ELSE f[x]]

Account(email, role, company) ==
  [email |-> email, role |-> role, company |-> company, status |-> "active"]

\* registerDriver, createStaffUser: the role of a self-registered account is fixed.
insertUser(p) ==
  LET op == request[p].op
      account == IF op.kind = "registerDriver" THEN Account(op.name, "driver", Nothing)
                 ELSE Account(op.name, op.role, op.to)
  IN
  /\ request[p].step = "write" /\ op.kind \in {"registerDriver", "createUser"}
  /\ \/ ~ IndexAdmits(op) /\ UNCHANGED users
     \/ /\ IndexAdmits(op)
        /\ \E u \in Users \ DOMAIN users : users' = With(users, u, account)
  /\ Ends(p)
  /\ UNCHANGED <<companies, vehicles, requests, sockets>>

\* The scoped findOneAndUpdate; a suspension then goes on to the live connections.
setUserStatus(p) ==
  LET r == request[p] IN
  /\ r.step = "write" /\ r.op.kind = "setUserStatus"
  /\ IF ~ Manages(r.by, r.op.id) THEN UNCHANGED users /\ Ends(p)
     ELSE /\ users' = [users EXCEPT ![r.op.id].status = r.op.to]
          /\ IF r.op.to # "active" THEN Goes(p, "disconnect") ELSE Ends(p)
  /\ UNCHANGED <<companies, vehicles, requests, sockets>>

writeCompany(p) ==
  LET op == request[p].op IN
  /\ request[p].step = "write" /\ op.kind \in {"createCompany", "updateCompany"}
  /\ \/ ~ IndexAdmits(op) /\ UNCHANGED companies
     \/ /\ IndexAdmits(op) /\ op.kind = "createCompany"
        /\ \E k \in Companies \ DOMAIN companies :
             companies' = With(companies, k, [name |-> op.name, status |-> "active"])
     \/ /\ IndexAdmits(op) /\ op.kind = "updateCompany"
        /\ companies' = [companies EXCEPT ![op.id].name = op.name]
  /\ Ends(p)
  /\ UNCHANGED <<users, vehicles, requests, sockets>>

setCompanyStatus_silent(p) ==
  LET op == request[p].op IN
  /\ request[p].step = "write" /\ op.kind = "setCompanyStatus"
  /\ companies' = [companies EXCEPT ![op.id].status = op.to]
  /\ Ends(p)
  /\ UNCHANGED <<users, vehicles, requests, sockets>>
setCompanyStatus(p) ==
  LET op == request[p].op IN
  /\ request[p].step = "write" /\ op.kind = "setCompanyStatus"
  /\ companies' = [companies EXCEPT ![op.id].status = op.to]
  /\ IF op.to # "active" THEN Goes(p, "disconnect") ELSE Ends(p)
  /\ UNCHANGED <<users, vehicles, requests, sockets>>

\* applyOwnerScope: a driver reaches only cars of their own; a car is never deleted.
writeVehicle(p) ==
  LET r == request[p]
      op == r.op
      own == op.id \in DOMAIN vehicles /\ vehicles[op.id].owner = r.by
  IN
  /\ r.step = "write" /\ op.kind \in {"createVehicle", "updateVehicle", "deactivateVehicle"}
  /\ \/ /\ op.kind = "createVehicle" /\ IndexAdmits(op)
        /\ \E v \in Vehicles \ DOMAIN vehicles :
             vehicles' = With(vehicles, v, [owner |-> r.by, plate |-> op.name, isActive |-> TRUE])
     \/ /\ op.kind = "updateVehicle" /\ own /\ IndexAdmits(op)
        /\ \E on \in BOOLEAN :
             vehicles' = [vehicles EXCEPT ![op.id].plate = IF Named(op) THEN op.name ELSE @,
                                          ![op.id].isActive = on]
     \/ /\ op.kind = "deactivateVehicle" /\ own
        /\ vehicles' = [vehicles EXCEPT ![op.id].isActive = FALSE]
     \/ /\ op.kind = "createVehicle" /\ ~ IndexAdmits(op) /\ UNCHANGED vehicles
     \/ /\ op.kind = "updateVehicle" /\ ~ (own /\ IndexAdmits(op)) /\ UNCHANGED vehicles
     \/ op.kind = "deactivateVehicle" /\ ~ own /\ UNCHANGED vehicles
  /\ Ends(p)
  /\ UNCHANGED <<users, companies, requests, sockets>>

-----------------------------------------------------------------------------
(* Live connections *)

NoSocket == [step |-> "none", user |-> Nobody, raced |-> FALSE]

userRoom(u) == <<"user", u>>
companyRoom(k) == <<"company", k>>
PLATFORM_ROOM == <<"platform", Nothing>>

\* The rooms the server puts a connection in, from its verified identity.
roomsFor(u) ==
  {userRoom(u)}
    \cup (IF users[u].role = "super_admin" THEN {PLATFORM_ROOM}
          ELSE IF users[u].role \in COMPANY_SCOPED_ROLES THEN {companyRoom(users[u].company)}
          ELSE {})

Dial(s, u) ==
  /\ sockets[s] = NoSocket
  /\ sockets' = [sockets EXCEPT ![s] = [NoSocket EXCEPT !.step = "user", !.user = u]]
  /\ UNCHANGED <<documents, request, requests>>

\* authenticateSocket: the account, then for staff the company; the connection
\* joins its rooms in the turn of the last read.
HandshakeUser(s) ==
  LET u == sockets[s].user IN
  /\ sockets[s].step = "user"
  /\ sockets' = [sockets EXCEPT ![s] =
       IF users[u].status # "active" THEN NoSocket
       ELSE [@ EXCEPT !.step = IF users[u].role \in COMPANY_SCOPED_ROLES
                               THEN "company" ELSE "connected"]]
  /\ UNCHANGED <<documents, request, requests>>

HandshakeCompany(s) ==
  /\ sockets[s].step = "company"
  /\ sockets' = [sockets EXCEPT ![s] =
       IF companies[users[@.user].company].status # "active" THEN NoSocket
       ELSE [@ EXCEPT !.step = "connected"]]
  /\ UNCHANGED <<documents, request, requests>>

Hangup(s) ==
  /\ sockets[s].step = "connected"
  /\ sockets' = [sockets EXCEPT ![s] = NoSocket]
  /\ UNCHANGED <<documents, request, requests>>

\* disconnectCompany, disconnectUserSockets: what is in the room now is cut.  A
\* connection still in its handshake is in no room yet; it is marked.
RoomOf(op) ==
  IF op.kind = "setCompanyStatus" THEN companyRoom(op.id) ELSE userRoom(op.id)
InRoom(s, room) == sockets[s].step # "none" /\ room \in roomsFor(sockets[s].user)

disconnect(p) ==
  /\ request[p].step = "disconnect"
  /\ sockets' = [s \in Sockets |->
       IF ~ InRoom(s, RoomOf(request[p].op)) THEN sockets[s]
       ELSE IF sockets[s].step = "connected" THEN NoSocket
       ELSE [sockets[s] EXCEPT !.raced = TRUE]]
  /\ Ends(p)
  /\ UNCHANGED <<documents, requests>>

-----------------------------------------------------------------------------
Init ==
  /\ users = Accounts
  /\ companies = Operators
  /\ vehicles = << >>
  /\ request = [p \in Slots |-> Idle]
  /\ requests = 0
  /\ late = [why \in Reasons |-> {}]
  /\ sockets = [s \in Sockets |-> NoSocket]

Handled(p) ==
  \/ authenticate(p) \/ requireActiveCompany(p) \/ checkClash(p)
  \/ insertUser(p) \/ setUserStatus(p)
  \/ writeCompany(p) \/ setCompanyStatus(p)
  \/ writeVehicle(p) \/ disconnect(p)

Step ==
  \/ \E p \in Slots :
       \/ \E u \in DOMAIN users, op \in Requested : Arrive(p, u, op)
       \/ \E e \in Emails : ArriveRegistration(p, e)
       \/ Handled(p)
  \/ \E s \in Sockets :
       \/ \E u \in DOMAIN users : Dial(s, u)
       \/ HandshakeUser(s) \/ HandshakeCompany(s) \/ Hangup(s)

BarredSlots(why) == {p \in Slots : Barred(why, request[p])}

\* A request is late while its sender has been barred, for one reason, ever since
\* it arrived.
Next ==
  /\ Step
  /\ late' = [why \in Reasons |->
                {p \in BarredSlots(why)' : p \in late[why] \/ request[p] = Idle}]

Spec == Init /\ [][Next]_vars

-----------------------------------------------------------------------------
(* Properties *)

Known == Emails \cup Names \cup Plates \cup {Nothing} \cup InitialEmails \cup InitialNames
UserDocs == [email : Known, role : ROLES, company : Companies \cup {Nothing}, status : Statuses]
CompanyDocs == [name : Known, status : Statuses]
VehicleDocs == [owner : Users, plate : Known, isActive : BOOLEAN]
OpKinds == {"none", "registerDriver", "createUser", "setUserStatus", "createCompany",
            "updateCompany", "setCompanyStatus", "createVehicle", "updateVehicle",
            "deactivateVehicle"}
Ops == [kind : OpKinds, id : Users \cup Companies \cup Vehicles \cup {Nothing}, name : Known,
        role : ROLES \cup {Nothing}, to : Companies \cup Statuses \cup {Nothing}]

TypeOK ==
  /\ DOMAIN users \subseteq Users /\ users \in [DOMAIN users -> UserDocs]
  /\ DOMAIN companies \subseteq Companies /\ companies \in [DOMAIN companies -> CompanyDocs]
  /\ DOMAIN vehicles \subseteq Vehicles /\ vehicles \in [DOMAIN vehicles -> VehicleDocs]
  /\ request \in [Slots -> [step : {"idle", "authenticate", "company", "check", "write",
                                    "disconnect"},
                            by : Users \cup {Nobody}, op : Ops]]
  /\ requests \in 0..MaxRequests
  /\ sockets \in [Sockets -> [step : {"none", "user", "company", "connected"},
                              user : Users \cup {Nobody}, raced : BOOLEAN]]

\* What refers to a document refers to one that exists.
ReferencesOK ==
  /\ \A u \in DOMAIN users :
       IF users[u].role \in COMPANY_SCOPED_ROLES THEN users[u].company \in DOMAIN companies
       ELSE users[u].company = Nothing
  /\ \A p \in Slots : LET r == request[p] IN
       /\ r.by \in DOMAIN users \cup {Nobody}
       /\ r.by = Nobody => r.step \notin {"authenticate", "company", "disconnect"}
                          /\ r.op.kind \in {"none", "registerDriver"}
       /\ r.op.kind = "createUser" => r.op.role \in ASSIGNABLE_COMPANY_ROLES
                                     /\ r.op.to \in DOMAIN companies
       /\ r.op.kind \in {"setUserStatus", "setCompanyStatus"} => r.op.to \in Statuses
       /\ r.step = "company" => AsksForCompany(r.op, r.by)
       /\ r.step = "disconnect" => r.op.kind \in {"setUserStatus", "setCompanyStatus"}
  /\ \A s \in Sockets : sockets[s].step # "none" =>
       /\ sockets[s].user \in DOMAIN users
       /\ sockets[s].step = "company" => users[sockets[s].user].role \in COMPANY_SCOPED_ROLES

\* A suspension holds for tokens issued before it: a request that arrives once
\* its sender, or the sender's company, is suspended reaches no handler while
\* that lasts, whatever changes meanwhile (company.service.ts:164,
\* auth.middleware.ts:48).  One suspension giving way to the other is not covered:
\* a request can pass both middlewares between them.
LateRequestsRefused ==
  /\ \A p \in late["account"] : request[p].step = "authenticate"
  /\ \A p \in late["company"] : request[p].step \in {"authenticate", "company"}

\* A suspension reaches open connections: nobody suspended goes on listening
\* once the suspension has cut the connections it found, but for a connection
\* whose handshake was under way at that moment (company.service.ts:169,
\* user.service.ts:215, realtime/publisher.ts:231).
ToBeCut(s) ==
  \E p \in Slots : request[p].step = "disconnect" /\ InRoom(s, RoomOf(request[p].op))
SuspendedSocketsRaced ==
  \A s \in Sockets :
    (sockets[s].step = "connected" /\ Suspended(sockets[s].user)) =>
      sockets[s].raced \/ ToBeCut(s)
=============================================================================
