------------------------------- MODULE Routes -------------------------------
(***************************************************************************)
(* The HTTP interface: the routers of the server, in the order in which    *)
(* they try a request, and the functions through which the browser calls   *)
(* them.  A request is handled by the first route that matches it, so a    *)
(* literal segment must be declared before the parameter that would take   *)
(* it.                                                                     *)
(*                                                                         *)
(* Sources: backend/src/routes/*.ts and frontend/src/services/*.ts.        *)
(*                                                                         *)
(* A path is the sequence of its segments and an id is ID.  Left out: the  *)
(* validators (but for what the modules of the handlers say of them),      *)
(* query strings and bodies.                                               *)
(***************************************************************************)
EXTENDS Naturals, Sequences

ROLES == {"super_admin", "cpo_admin", "operator", "driver"}
Visitor == "visitor"      \* somebody who is not signed in

STAFF_ROLES == {"super_admin", "cpo_admin", "operator"}
WRITE_ROLES == {"super_admin", "cpo_admin"}
PLATFORM == {"super_admin"}
DRIVERS == {"driver"}
ANYONE == ROLES \cup {Visitor}

ID == ":id"

\* A route: the handler it names, whom authorize lets through, and whether it
\* mounts requireActiveCompany.
Route(method, path, handler, roles, activeCompany) ==
  [method |-> method, path |-> path, handler |-> handler, roles |-> roles,
   activeCompany |-> activeCompany]

Mounted(prefix, routes) == [i \in DOMAIN routes |-> [routes[i] EXCEPT !.path = prefix \o @]]

-----------------------------------------------------------------------------
(* The routers *)

healthRoutes == <<Route("GET", <<>>, "getHealth", ANYONE, FALSE)>>

authRoutes ==
  <<Route("POST", <<"register">>, "registerDriver", ANYONE, FALSE),
    Route("POST", <<"login">>, "login", ANYONE, FALSE),
    Route("GET", <<"me">>, "me", ROLES, FALSE)>>

companyRoutes ==
  <<Route("GET", <<"me">>, "getMyCompany", {"cpo_admin", "operator"}, TRUE),
    Route("POST", <<>>, "createCompany", PLATFORM, FALSE),
    Route("GET", <<>>, "listCompanies", PLATFORM, FALSE),
    Route("GET", <<ID>>, "getCompanyById", STAFF_ROLES, TRUE),
    Route("PATCH", <<ID>>, "updateCompany", PLATFORM, FALSE),
    Route("PATCH", <<ID, "status">>, "setCompanyStatus", PLATFORM, FALSE)>>

userRoutes ==
  <<Route("PATCH", <<"me">>, "updateMe", ROLES, FALSE),
    Route("GET", <<"me", "vehicles">>, "listMyVehicles", DRIVERS, FALSE),
    Route("POST", <<"me", "vehicles">>, "createVehicle", DRIVERS, FALSE),
    Route("GET", <<"me", "vehicles", ID>>, "getMyVehicle", DRIVERS, FALSE),
    Route("PATCH", <<"me", "vehicles", ID>>, "updateVehicle", DRIVERS, FALSE),
    Route("DELETE", <<"me", "vehicles", ID>>, "deactivateVehicle", DRIVERS, FALSE),
    Route("GET", <<>>, "listUsers", WRITE_ROLES, TRUE),
    Route("POST", <<>>, "createUser", WRITE_ROLES, TRUE),
    Route("GET", <<ID>>, "getUserById", WRITE_ROLES, TRUE),
    Route("PATCH", <<ID>>, "updateUser", WRITE_ROLES, TRUE),
    Route("PATCH", <<ID, "status">>, "setUserStatus", WRITE_ROLES, TRUE)>>

stationRoutes ==
  <<Route("GET", <<"map">>, "listStationsForMap", STAFF_ROLES, TRUE),
    Route("GET", <<"public">>, "listPublicStations", ROLES, FALSE),
    Route("GET", <<"public", "cities">>, "listPublicStationCities", ROLES, FALSE),
    Route("GET", <<"cities">>, "listStationCities", STAFF_ROLES, TRUE),
    Route("GET", <<>>, "listStations", STAFF_ROLES, TRUE),
    Route("GET", <<ID>>, "getStationById", STAFF_ROLES, TRUE),
    Route("POST", <<>>, "createStation", WRITE_ROLES, TRUE),
    Route("PATCH", <<ID>>, "updateStation", WRITE_ROLES, TRUE),
    Route("PATCH", <<ID, "status">>, "setStationStatus", WRITE_ROLES, TRUE)>>

chargerRoutes ==
  <<Route("GET", <<ID, "connectors">>, "listConnectors", STAFF_ROLES, TRUE),
    Route("POST", <<ID, "connectors">>, "createConnector", WRITE_ROLES, TRUE),
    Route("GET", <<ID, "connectors", ID>>, "getConnector", STAFF_ROLES, TRUE),
    Route("PATCH", <<ID, "connectors", ID>>, "updateConnector", WRITE_ROLES, TRUE),
    Route("PATCH", <<ID, "connectors", ID, "status">>, "setConnectorStatus", WRITE_ROLES, TRUE),
    Route("GET", <<ID, "connection">>, "getConnectionState", STAFF_ROLES, TRUE),
    Route("POST", <<ID, "token">>, "regenerateChargerToken", WRITE_ROLES, TRUE),
    Route("GET", <<>>, "listChargers", STAFF_ROLES, TRUE),
    Route("POST", <<>>, "createCharger", WRITE_ROLES, TRUE),
    Route("GET", <<ID>>, "getChargerById", STAFF_ROLES, TRUE),
    Route("PATCH", <<ID>>, "updateCharger", WRITE_ROLES, TRUE),
    Route("PATCH", <<ID, "status">>, "setChargerStatus", WRITE_ROLES, TRUE)>>

sessionRoutes_activeLast ==
  <<Route("GET", <<"connectors", ID>>, "getConnectorForCharging", ROLES, FALSE),
    Route("GET", <<"stations", ID, "connectors">>, "listStationConnectors", ROLES, FALSE),
    Route("POST", <<"sessions">>, "startSession", DRIVERS, FALSE),
    Route("GET", <<"sessions">>, "listSessions", ROLES, FALSE),
    Route("GET", <<"sessions", ID>>, "getSessionById", ROLES, FALSE),
    Route("GET", <<"sessions", "active">>, "getActiveSession", DRIVERS, FALSE),
    Route("GET", <<"sessions", ID, "readings">>, "listSessionReadings", ROLES, FALSE),
    Route("POST", <<"sessions", ID, "stop">>, "stopSession", ROLES, FALSE)>>
sessionRoutes ==
  <<Route("GET", <<"connectors", ID>>, "getConnectorForCharging", ROLES, FALSE),
    Route("GET", <<"stations", ID, "connectors">>, "listStationConnectors", ROLES, FALSE),
    Route("POST", <<"sessions">>, "startSession", DRIVERS, FALSE),
    Route("GET", <<"sessions", "active">>, "getActiveSession", DRIVERS, FALSE),
    Route("GET", <<"sessions">>, "listSessions", ROLES, FALSE),
    Route("GET", <<"sessions", ID>>, "getSessionById", ROLES, FALSE),
    Route("GET", <<"sessions", ID, "readings">>, "listSessionReadings", ROLES, FALSE),
    Route("POST", <<"sessions", ID, "stop">>, "stopSession", ROLES, FALSE)>>

tariffRoutes ==
  <<Route("GET", <<>>, "listTariffs", STAFF_ROLES, TRUE),
    Route("POST", <<>>, "createTariff", WRITE_ROLES, TRUE),
    Route("GET", <<ID>>, "getTariffById", STAFF_ROLES, TRUE),
    Route("PATCH", <<ID>>, "updateTariff", WRITE_ROLES, TRUE),
    Route("PATCH", <<ID, "status">>, "setTariffStatus", WRITE_ROLES, TRUE)>>

walletRouter ==
  <<Route("GET", <<>>, "getMyWallet", DRIVERS, FALSE),
    Route("GET", <<"transactions">>, "listMyTransactions", DRIVERS, FALSE),
    Route("POST", <<"recharge", "order">>, "createRechargeOrder", DRIVERS, FALSE),
    Route("POST", <<"recharge", "verify">>, "verifyRecharge", DRIVERS, FALSE)>>

paymentRoutes ==
  <<Route("POST", <<"webhook", "razorpay">>, "razorpayWebhook", ANYONE, FALSE),
    Route("GET", <<>>, "listPayments", {"super_admin", "cpo_admin", "driver"}, FALSE),
    Route("GET", <<ID>>, "getPaymentById", {"super_admin", "cpo_admin", "driver"}, FALSE),
    Route("POST", <<ID, "refund">>, "refundRecharge", PLATFORM, FALSE)>>

complaintRoutes ==
  <<Route("POST", <<>>, "createComplaint", DRIVERS, FALSE),
    Route("GET", <<>>, "listComplaints", ROLES, FALSE),
    Route("GET", <<ID>>, "getComplaintById", ROLES, FALSE),
    Route("PATCH", <<ID>>, "updateComplaint", STAFF_ROLES, FALSE),
    Route("PATCH", <<ID, "status">>, "setComplaintStatus", STAFF_ROLES, FALSE),
    Route("POST", <<ID, "assign">>, "assignComplaint", STAFF_ROLES, FALSE),
    Route("POST", <<ID, "confirm">>, "confirmComplaintResolved", DRIVERS, FALSE),
    Route("POST", <<ID, "reopen">>, "reopenComplaint", DRIVERS, FALSE)>>

notificationRoutes ==
  <<Route("GET", <<>>, "listNotifications", ROLES, FALSE),
    Route("GET", <<"unread-count">>, "getUnreadCount", ROLES, FALSE),
    Route("PATCH", <<"read-all">>, "markAllAsRead", ROLES, FALSE),
    Route("PATCH", <<ID, "read">>, "markAsRead", ROLES, FALSE)>>

analyticsRoutes ==
  <<Route("GET", <<"overview">>, "getOverview", STAFF_ROLES, TRUE),
    Route("GET", <<"sessions">>, "getSessionSeries", STAFF_ROLES, TRUE),
    Route("GET", <<"revenue">>, "getRevenueSeries", WRITE_ROLES, TRUE),
    Route("GET", <<"stations">>, "getTopStations", STAFF_ROLES, TRUE)>>

router ==
  Mounted(<<"health">>, healthRoutes) \o Mounted(<<"auth">>, authRoutes)
    \o Mounted(<<"companies">>, companyRoutes) \o Mounted(<<"users">>, userRoutes)
    \o Mounted(<<"stations">>, stationRoutes) \o Mounted(<<"chargers">>, chargerRoutes)
    \o Mounted(<<"charging">>, sessionRoutes) \o Mounted(<<"tariffs">>, tariffRoutes)
    \o Mounted(<<"wallet">>, walletRouter) \o Mounted(<<"payments">>, paymentRoutes)
    \o Mounted(<<"complaints">>, complaintRoutes)
    \o Mounted(<<"notifications">>, notificationRoutes)
    \o Mounted(<<"analytics">>, analyticsRoutes)

Matches(route, method, path) ==
  /\ route.method = method
  /\ Len(route.path) = Len(path)
  /\ \A i \in DOMAIN path : route.path[i] \in {path[i], ID}

\* Where a request goes: to the first route that matches, if any does.
Dispatched(method, path) ==
  {router[i] : i \in {i \in DOMAIN router :
     /\ Matches(router[i], method, path)
     /\ \A j \in 1..(i - 1) : ~ Matches(router[j], method, path)}}

\* The route of a handler.
RouteOf(handler) == CHOOSE i \in DOMAIN router : router[i].handler = handler

-----------------------------------------------------------------------------
(* The functions of the browser: what each sends, and which handler it is *)
(* written for.                                                           *)

Call(name, method, path, handler) ==
  [name |-> name, method |-> method, path |-> path, handler |-> handler]

healthService == {Call("fetchHealth", "GET", <<"health">>, "getHealth")}

authService ==
  {Call("loginRequest", "POST", <<"auth", "login">>, "login"),
   Call("registerRequest", "POST", <<"auth", "register">>, "registerDriver"),
   Call("fetchMe", "GET", <<"auth", "me">>, "me")}

companyService ==
  {Call("listCompanies", "GET", <<"companies">>, "listCompanies"),
   Call("getMyCompany", "GET", <<"companies", "me">>, "getMyCompany"),
   Call("getCompany", "GET", <<"companies", ID>>, "getCompanyById"),
   Call("createCompany", "POST", <<"companies">>, "createCompany"),
   Call("updateCompany", "PATCH", <<"companies", ID>>, "updateCompany"),
   Call("setCompanyStatus", "PATCH", <<"companies", ID, "status">>, "setCompanyStatus")}

userService ==
  {Call("listUsers", "GET", <<"users">>, "listUsers"),
   Call("getUser", "GET", <<"users", ID>>, "getUserById"),
   Call("createStaffUser", "POST", <<"users">>, "createUser"),
   Call("updateUser", "PATCH", <<"users", ID>>, "updateUser"),
   Call("setUserStatus", "PATCH", <<"users", ID, "status">>, "setUserStatus"),
   Call("updateMyProfile", "PATCH", <<"users", "me">>, "updateMe")}

vehicleService ==
  {Call("listMyVehicles", "GET", <<"users", "me", "vehicles">>, "listMyVehicles"),
   Call("getMyVehicle", "GET", <<"users", "me", "vehicles", ID>>, "getMyVehicle"),
   Call("createMyVehicle", "POST", <<"users", "me", "vehicles">>, "createVehicle"),
   Call("updateMyVehicle", "PATCH", <<"users", "me", "vehicles", ID>>, "updateVehicle"),
   Call("deactivateMyVehicle", "DELETE", <<"users", "me", "vehicles", ID>>,
        "deactivateVehicle")}

stationService ==
  {Call("listStations", "GET", <<"stations">>, "listStations"),
   Call("getStation", "GET", <<"stations", ID>>, "getStationById"),
   Call("createStation", "POST", <<"stations">>, "createStation"),
   Call("updateStation", "PATCH", <<"stations", ID>>, "updateStation"),
   Call("setStationStatus", "PATCH", <<"stations", ID, "status">>, "setStationStatus"),
   Call("getMapStations", "GET", <<"stations", "map">>, "listStationsForMap"),
   Call("getPublicStations", "GET", <<"stations", "public">>, "listPublicStations"),
   Call("listStationCities_driver", "GET", <<"stations", "public", "cities">>,
        "listPublicStationCities"),
   Call("listStationCities_staff", "GET", <<"stations", "cities">>, "listStationCities")}

chargerService ==
  {Call("listChargers", "GET", <<"chargers">>, "listChargers"),
   Call("getCharger", "GET", <<"chargers", ID>>, "getChargerById"),
   Call("createCharger", "POST", <<"chargers">>, "createCharger"),
   Call("updateCharger", "PATCH", <<"chargers", ID>>, "updateCharger"),
   Call("setChargerStatus", "PATCH", <<"chargers", ID, "status">>, "setChargerStatus"),
   Call("getChargerConnection", "GET", <<"chargers", ID, "connection">>, "getConnectionState"),
   Call("regenerateChargerToken", "POST", <<"chargers", ID, "token">>,
        "regenerateChargerToken"),
   Call("listConnectors", "GET", <<"chargers", ID, "connectors">>, "listConnectors"),
   Call("createConnector", "POST", <<"chargers", ID, "connectors">>, "createConnector"),
   Call("updateConnector", "PATCH", <<"chargers", ID, "connectors", ID>>, "updateConnector"),
   Call("setConnectorStatus", "PATCH", <<"chargers", ID, "connectors", ID, "status">>,
        "setConnectorStatus")}

sessionService ==
  {Call("listSessions", "GET", <<"charging", "sessions">>, "listSessions"),
   Call("getSession", "GET", <<"charging", "sessions", ID>>, "getSessionById"),
   Call("getActiveSession", "GET", <<"charging", "sessions", "active">>, "getActiveSession"),
   Call("getSessionReadings", "GET", <<"charging", "sessions", ID, "readings">>,
        "listSessionReadings"),
   Call("getConnectorForCharging", "GET", <<"charging", "connectors", ID>>,
        "getConnectorForCharging"),
   Call("listStationConnectors", "GET", <<"charging", "stations", ID, "connectors">>,
        "listStationConnectors"),
   Call("startSession", "POST", <<"charging", "sessions">>, "startSession"),
   Call("stopSession", "POST", <<"charging", "sessions", ID, "stop">>, "stopSession")}

tariffService ==
  {Call("listTariffs", "GET", <<"tariffs">>, "listTariffs"),
   Call("getTariff", "GET", <<"tariffs", ID>>, "getTariffById"),
   Call("createTariff", "POST", <<"tariffs">>, "createTariff"),
   Call("updateTariff", "PATCH", <<"tariffs", ID>>, "updateTariff"),
   Call("setTariffStatus", "PATCH", <<"tariffs", ID, "status">>, "setTariffStatus")}

walletService ==
  {Call("getWallet", "GET", <<"wallet">>, "getMyWallet"),
   Call("listWalletTransactions", "GET", <<"wallet", "transactions">>, "listMyTransactions"),
   Call("createRechargeOrder", "POST", <<"wallet", "recharge", "order">>,
        "createRechargeOrder"),
   Call("verifyRecharge", "POST", <<"wallet", "recharge", "verify">>, "verifyRecharge"),
   Call("listPayments", "GET", <<"payments">>, "listPayments"),
   Call("getPayment", "GET", <<"payments", ID>>, "getPaymentById")}

complaintService ==
  {Call("listComplaints", "GET", <<"complaints">>, "listComplaints"),
   Call("getComplaint", "GET", <<"complaints", ID>>, "getComplaintById"),
   Call("createComplaint", "POST", <<"complaints">>, "createComplaint"),
   Call("updateComplaint", "PATCH", <<"complaints", ID>>, "updateComplaint"),
   Call("setComplaintStatus", "PATCH", <<"complaints", ID, "status">>, "setComplaintStatus"),
   Call("confirmComplaint", "POST", <<"complaints", ID, "confirm">>,
        "confirmComplaintResolved"),
   Call("reopenComplaint", "POST", <<"complaints", ID, "reopen">>, "reopenComplaint"),
   Call("assignComplaint", "POST", <<"complaints", ID, "assign">>, "assignComplaint")}

notificationService ==
  {Call("listNotifications", "GET", <<"notifications">>, "listNotifications"),
   Call("getUnreadCount", "GET", <<"notifications", "unread-count">>, "getUnreadCount"),
   Call("markAsRead", "PATCH", <<"notifications", ID, "read">>, "markAsRead"),
   Call("markAllAsRead", "PATCH", <<"notifications", "read-all">>, "markAllAsRead")}

analyticsService ==
  {Call("getOverview", "GET", <<"analytics", "overview">>, "getOverview"),
   Call("getSessionSeries", "GET", <<"analytics", "sessions">>, "getSessionSeries"),
   Call("getRevenueSeries", "GET", <<"analytics", "revenue">>, "getRevenueSeries"),
   Call("getTopStations", "GET", <<"analytics", "stations">>, "getTopStations")}

services ==
  healthService \cup authService \cup companyService \cup userService \cup vehicleService
    \cup stationService \cup chargerService \cup sessionService \cup tariffService
    \cup walletService \cup complaintService \cup notificationService \cup analyticsService

\* The calls a role's requests get through with: dispatched to the handler they
\* were written for, which lets that role in.
ServedTo ==
  [r \in ANYONE |->
     {c.name : c \in {c \in services :
        \E route \in Dispatched(c.method, c.path) :
          route.handler = c.handler /\ r \in route.roles}}]
=============================================================================
