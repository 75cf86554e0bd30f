------------------------------- MODULE Pages --------------------------------
(***************************************************************************)
(* The pages of the web application: whom the guard of each lets in, what  *)
(* it asks of the server for the role that looks at it, whether on loading *)
(* or behind a control, and where it leads.                                *)
(*                                                                         *)
(* Sources: frontend/src/app, frontend/src/components.                     *)
(*                                                                         *)
(* A page is a function of the role only: a control shown in some states   *)
(* of a document is a control it may show (ComplaintPage and LiveView are  *)
(* about such states).  Left out: error views, layout, forms' fields.      *)
(***************************************************************************)
EXTENDS Access

Page(roles, calls, links) == [roles |-> roles, calls |-> calls, links |-> links]
NoPage == Page({}, {}, {})

\* A page and the parts it shows.
Showing(page, parts) ==
  [page EXCEPT !.calls = @ \cup UNION {p.calls : p \in parts},
               !.links = @ \cup UNION {p.links : p \in parts}]

\* What is there only for some roles.
For(allowed, S) == IF allowed THEN S ELSE {}

canManage(r) == r \in WRITE_ROLES
isPlatformAdmin(r) == r = "super_admin"
isDriver(r) == r = "driver"

-----------------------------------------------------------------------------
(* The frame around every page of somebody who is signed in *)

navigationFor(r) ==
  IF isDriver(r)
  THEN {"/dashboard", "/charge", "/map", "/sessions", "/wallet", "/my-vehicles", "/complaints",
        "/notifications", "/profile"}
  ELSE {"/dashboard", "/monitor", "/sessions", "/stations", "/chargers", "/map", "/tariffs",
        "/complaints", "/analytics", "/notifications"}
         \cup For(isPlatformAdmin(r), {"/companies"})
         \cup For(r \in {"cpo_admin", "operator"}, {"/my-company"})
         \cup For(canManage(r), {"/users", "/payments"})

Sidebar(r) == Page({}, {}, navigationFor(r) \cup {"/"})

\* What a notification refers to, by who receives it: a driver's are about
\* charges, payments and complaints, staff's about complaints and chargers.
Referenced(r) ==
  IF isDriver(r) THEN {"charging_session", "payment", "complaint"} ELSE {"complaint", "charger"}

hrefFor(referenceType) ==
  CASE referenceType = "charging_session" -> "/sessions/[sessionId]"
    [] referenceType = "complaint"        -> "/complaints/[complaintId]"
    [] referenceType = "payment"          -> "/wallet"
    [] referenceType = "charger"          -> "/chargers/[chargerId]"

NotificationBell(r) ==
  Page({}, {"getUnreadCount", "listNotifications", "markAsRead", "markAllAsRead"},
       {hrefFor(t) : t \in Referenced(r)} \cup {"/notifications"})

\* Signing out leads to the login page, which is not a link of the page.
Topbar(r) == Showing(NoPage, {NotificationBell(r)})

BARE_ROUTES == {"/", "/login", "/register"}

AppShell(p, r) ==
  IF p \in BARE_ROUTES \/ r = Visitor THEN NoPage ELSE Showing(Sidebar(r), {Topbar(r)})

-----------------------------------------------------------------------------
(* Shared parts *)

CompanyFilter(r) == Page({}, For(isPlatformAdmin(r), {"listCompanies"}), {})
StationForm(r) == Page({}, For(isPlatformAdmin(r), {"listCompanies"}), {})
ChargerForm(r) == Page({}, {"listStations"}, {})
RelatedComplaints == Page({}, {"listComplaints"}, {"/complaints/[complaintId]"})
SessionRow == Page({}, {}, {"/sessions/[sessionId]"})
ComplaintRow == Page({}, {}, {"/complaints/[complaintId]"})

-----------------------------------------------------------------------------
(* Public pages *)

SystemStatusPage == Page(ANYONE, {"fetchHealth"}, {"/login", "/register", "/dashboard"})
LoginPage == Page(ANYONE, {"loginRequest"}, {"/register", "/dashboard"})
RegisterPage == Page(ANYONE, {"registerRequest"}, {"/login", "/dashboard"})

-----------------------------------------------------------------------------
(* The dashboard, by role *)

DriverHome ==
  Page({}, {"getActiveSession"},
       {"/charge", "/map", "/wallet", "/complaints", "/notifications", "/sessions",
        "/my-vehicles", "/profile", "/sessions/[sessionId]"})

FleetStatus == Page({}, {}, {"/monitor", "/chargers"})
ActiveSessions == Page({}, {}, {"/sessions", "/sessions/[sessionId]"})

\* A payment that settled no charge leads to the payments page, for those who
\* may open it.
buildActivity(r) ==
  Page({}, {}, {"/sessions/[sessionId]", "/complaints/[complaintId]"}
                 \cup For(canManage(r), {"/payments"}))

OperationsDashboard(r) ==
  Showing(
    Page({}, {"getOverview", "getSessionSeries", "getTopStations", "listSessions",
              "listComplaints"} \cup For(canManage(r), {"getRevenueSeries", "listPayments"}),
         {"/monitor", "/sessions", "/stations", "/chargers", "/complaints", "/analytics",
          "/stations/[stationId]", "/map"} \cup For(canManage(r), {"/payments"})),
    {FleetStatus, ActiveSessions, buildActivity(r)})

DashboardPage(r) ==
  Showing(Page(ROLES, {}, {}), {IF isDriver(r) THEN DriverHome ELSE OperationsDashboard(r)})

-----------------------------------------------------------------------------
(* Operations *)

MonitorPage(r) ==
  Showing(Page(STAFF_ROLES, {"listStations", "listChargers", "listSessions"},
               {"/chargers/[chargerId]", "/sessions/[sessionId]"}), {CompanyFilter(r)})

SessionsPage(r) ==
  Showing(Page(ROLES, {"listSessions"}, For(isDriver(r), {"/charge"})),
          {SessionRow, CompanyFilter(r)})

\* Money outstanding leads its own driver to the wallet, a charge that ended to
\* a complaint about it; staff get the machines it was at.
SessionDetail(r) ==
  Page({}, {"stopSession"},
       IF isDriver(r) THEN {"/wallet", "/complaints/new"}
       ELSE {"/stations/[stationId]", "/chargers/[chargerId]"})
SessionDetailPage(r) ==
  Showing(Page(ROLES, {"getSession", "getSessionReadings"}, {"/sessions"}), {SessionDetail(r)})

StationListPage(r) ==
  Showing(Page(STAFF_ROLES, {"listStations", "listStationCities_staff"},
               {"/stations/[stationId]"} \cup For(canManage(r), {"/stations/new"})),
          {CompanyFilter(r)})

CreateStationPage(r) ==
  Showing(Page(WRITE_ROLES, {"createStation"}, {"/stations", "/stations/[stationId]"}),
          {StationForm(r)})

\* Who manages the station may edit it in the form, a platform administrator
\* with its company selector.
StationDetails(r) ==
  Showing(Page({}, For(canManage(r), {"updateStation", "setStationStatus"}),
               {"/chargers"} \cup For(canManage(r), {"/chargers/new"})),
          For(canManage(r), {StationForm(r)}))
StationDetailPage(r) ==
  Showing(Page(STAFF_ROLES, {"getStation"}, {"/stations"}),
          {StationDetails(r), RelatedComplaints})

ChargerListPage(r) ==
  Showing(Page(STAFF_ROLES, {"listChargers"},
               {"/chargers/[chargerId]"} \cup For(canManage(r), {"/chargers/new"})),
          {CompanyFilter(r)})

CreateChargerPage(r) ==
  Showing(Page(WRITE_ROLES, {"createCharger"}, {"/chargers", "/chargers/[chargerId]"}),
          {ChargerForm(r)})

OcppSection(r) ==
  Page({}, {"getChargerConnection"} \cup For(canManage(r), {"regenerateChargerToken"}),
       {"/sessions"})

ConnectorSection_anyRole(r) ==
  Page({}, {"listConnectors", "createConnector", "setConnectorStatus"}, {})
ConnectorSection(r) ==
  Page({}, {"listConnectors"} \cup For(canManage(r), {"createConnector", "setConnectorStatus"}),
       {})

ChargerDetails(r) ==
  Showing(Page({}, For(canManage(r), {"updateCharger", "setChargerStatus"}),
               {"/stations/[stationId]"}),
          {OcppSection(r), ConnectorSection(r)} \cup For(canManage(r), {ChargerForm(r)}))
ChargerDetailPage(r) ==
  Showing(Page(STAFF_ROLES, {"getCharger"}, {"/chargers"}),
          {ChargerDetails(r), RelatedComplaints})

\* The connectors of the station that is selected.
StationConnectors(r) ==
  Page({}, {"listStationConnectors"} \cup For(isDriver(r), {"getActiveSession"}),
       For(isDriver(r), {"/charge", "/complaints/new", "/sessions/[sessionId]"}))

MapPage(r) ==
  Showing(IF isDriver(r)
          THEN Page(ROLES, {"getPublicStations", "listStationCities_driver"}, {})
          ELSE Page(ROLES, {"getMapStations", "listStationCities_staff"},
                    {"/stations/[stationId]"}),
          {StationConnectors(r)})

-----------------------------------------------------------------------------
(* Management *)

CompanyListPage ==
  Page(PLATFORM, {"listCompanies"}, {"/companies/new", "/companies/[companyId]"})
CreateCompanyPage == Page(PLATFORM, {"createCompany"}, {"/companies", "/companies/[companyId]"})

CompanyDetailPage(r) ==
  Page(STAFF_ROLES,
       {"getCompany"} \cup For(isPlatformAdmin(r),
                               {"updateCompany", "setCompanyStatus", "createStaffUser"}),
       For(isPlatformAdmin(r), {"/companies"}))

MyCompanyPage == Page({"cpo_admin", "operator"}, {"getMyCompany"}, {})

UserListPage(r) ==
  Showing(Page(WRITE_ROLES, {"listUsers"}, {"/users/new", "/users/[userId]"}),
          {CompanyFilter(r)})
CreateUserPage(r) ==
  Page(WRITE_ROLES, {"createStaffUser"} \cup For(isPlatformAdmin(r), {"listCompanies"}),
       {"/users"})
UserDetailPage == Page(WRITE_ROLES, {"getUser", "updateUser", "setUserStatus"}, {"/users"})

TariffsPage(r) ==
  Showing(Page(STAFF_ROLES, {"listTariffs"},
               {"/tariffs/[tariffId]"} \cup For(canManage(r), {"/tariffs/new"})),
          {CompanyFilter(r)})
NewTariffPage(r) ==
  Page(WRITE_ROLES, {"createTariff"} \cup For(isPlatformAdmin(r), {"listCompanies"}),
       {"/tariffs", "/tariffs/[tariffId]"})
TariffDetailPage(r) ==
  Page(STAFF_ROLES, {"getTariff"} \cup For(canManage(r), {"updateTariff", "setTariffStatus"}),
       {"/tariffs", "/dashboard"})

AnalyticsPage(r) ==
  Page(STAFF_ROLES,
       {"getOverview", "getSessionSeries", "getTopStations"}
         \cup For(canManage(r), {"getRevenueSeries"})
         \cup For(isPlatformAdmin(r), {"listCompanies"}), {})

Payments(r) ==
  Showing(Page(WRITE_ROLES, {"listPayments"}, {"/sessions/[sessionId]"}), {CompanyFilter(r)})

-----------------------------------------------------------------------------
(* A driver's own, and everybody's *)

ChargePage ==
  Page(DRIVERS, {"getActiveSession", "listMyVehicles", "getConnectorForCharging",
                 "startSession"},
       {"/charge", "/map", "/sessions", "/sessions/[sessionId]", "/complaints/new"})
WalletPage ==
  Page(DRIVERS, {"getWallet", "listWalletTransactions", "createRechargeOrder",
                 "verifyRecharge"}, {"/sessions/[sessionId]"})
MyVehiclesPage ==
  Page(DRIVERS, {"listMyVehicles", "createMyVehicle", "updateMyVehicle",
                 "deactivateMyVehicle"}, {})
ProfilePage == Page(ROLES, {"updateMyProfile"}, {})

NotificationsPage(r) ==
  Page(ROLES, {"listNotifications", "markAsRead"},
       {hrefFor(t) : t \in Referenced(r)} \cup {"/notifications"})

ComplaintsPage(r) ==
  Showing(Page(ROLES, {"listComplaints"}, For(isDriver(r), {"/complaints/new"})),
          {ComplaintRow} \cup For(~ isDriver(r), {CompanyFilter(r)}))
NewComplaintPage ==
  Page(DRIVERS, {"getComplaint", "getSession", "createComplaint"},
       {"/complaints", "/complaints/[complaintId]"})

TicketDetails(r) ==
  Page({}, {}, {"/sessions/[sessionId]"}
                 \cup For(~ isDriver(r), {"/stations/[stationId]", "/chargers/[chargerId]"}))

\* An administrator hands the ticket to a colleague, and needs their names.
Assignment(r) == Page({}, {"assignComplaint"} \cup For(canManage(r), {"listUsers"}), {})
StaffControls(r) ==
  Showing(Page({}, {"updateComplaint", "setComplaintStatus"},
               {"/chargers/[chargerId]", "/sessions/[sessionId]"}), {Assignment(r)})
DriverControls == Page({}, {"confirmComplaint", "reopenComplaint"}, {"/complaints/new"})

ComplaintDetailPage(r) ==
  Showing(Page(ROLES, {"getComplaint"}, {"/complaints", "/complaints/[complaintId]"}),
          {TicketDetails(r), IF isDriver(r) THEN DriverControls ELSE StaffControls(r)})

-----------------------------------------------------------------------------
(* The application *)

Paths ==
  {"/", "/login", "/register", "/dashboard", "/monitor", "/sessions", "/sessions/[sessionId]",
   "/stations", "/stations/new", "/stations/[stationId]", "/chargers", "/chargers/new",
   "/chargers/[chargerId]", "/map", "/companies", "/companies/new", "/companies/[companyId]",
   "/my-company", "/users", "/users/new", "/users/[userId]", "/tariffs", "/tariffs/new",
   "/tariffs/[tariffId]", "/analytics", "/payments", "/charge", "/wallet", "/my-vehicles",
   "/profile", "/notifications", "/complaints", "/complaints/new",
   "/complaints/[complaintId]"}

Content(p, r) ==
  CASE p = "/" -> SystemStatusPage [] p = "/login" -> LoginPage
    [] p = "/register" -> RegisterPage [] p = "/dashboard" -> DashboardPage(r)
    [] p = "/monitor" -> MonitorPage(r) [] p = "/sessions" -> SessionsPage(r)
    [] p = "/sessions/[sessionId]" -> SessionDetailPage(r)
    [] p = "/stations" -> StationListPage(r) [] p = "/stations/new" -> CreateStationPage(r)
    [] p = "/stations/[stationId]" -> StationDetailPage(r)
    [] p = "/chargers" -> ChargerListPage(r) [] p = "/chargers/new" -> CreateChargerPage(r)
    [] p = "/chargers/[chargerId]" -> ChargerDetailPage(r) [] p = "/map" -> MapPage(r)
    [] p = "/companies" -> CompanyListPage [] p = "/companies/new" -> CreateCompanyPage
    [] p = "/companies/[companyId]" -> CompanyDetailPage(r)
    [] p = "/my-company" -> MyCompanyPage [] p = "/users" -> UserListPage(r)
    [] p = "/users/new" -> CreateUserPage(r) [] p = "/users/[userId]" -> UserDetailPage
    [] p = "/tariffs" -> TariffsPage(r) [] p = "/tariffs/new" -> NewTariffPage(r)
    [] p = "/tariffs/[tariffId]" -> TariffDetailPage(r) [] p = "/analytics" -> AnalyticsPage(r)
    [] p = "/payments" -> Payments(r) [] p = "/charge" -> ChargePage
    [] p = "/wallet" -> WalletPage [] p = "/my-vehicles" -> MyVehiclesPage
    [] p = "/profile" -> ProfilePage [] p = "/notifications" -> NotificationsPage(r)
    [] p = "/complaints" -> ComplaintsPage(r) [] p = "/complaints/new" -> NewComplaintPage
    [] p = "/complaints/[complaintId]" -> ComplaintDetailPage(r)

RootLayout(p, r) == Showing(Content(p, r), {AppShell(p, r)})

\* RequireAuth sends a visitor to the login page and a role it does not name to
\* the dashboard; the login and the registration page send on who is signed in.
RequireAuth(p, r) ==
  IF r \notin Content(p, r).roles THEN IF r = Visitor THEN "/login" ELSE "/dashboard"
  ELSE IF r # Visitor /\ p \in {"/login", "/register"} THEN "/dashboard"
  ELSE p

-----------------------------------------------------------------------------
\* The pages a role is shown, whose calls the server refuses or answers with
\* another handler, and the links on them that lead to a page that is not theirs.
Refused(r) ==
  {p \in Paths : RequireAuth(p, r) = p /\ ~ RootLayout(p, r).calls \subseteq ServedTo[r]}
ClosedDoors(r) ==
  {p \in Paths : /\ RequireAuth(p, r) = p
                 /\ \E l \in RootLayout(p, r).links :
                      \/ l \notin Paths
                      \/ r # Visitor /\ p \notin BARE_ROUTES /\ RequireAuth(l, r) # l
                      \/ RequireAuth(RequireAuth(l, r), r) # RequireAuth(l, r)}
Broken == [r \in ANYONE |-> Refused(r) \cup ClosedDoors(r)]

\* The pages offer nobody a door that will not open (layout/navigation.ts:15,
\* chargers/[chargerId]/page.tsx): what a page asks of the server for whoever its
\* guard lets in reaches the handler it is meant for and is allowed, and where
\* it leads is theirs to see.
PagesKeepTheirPromises ==
  \A r \in {Visitor} \cup {users[u].role : u \in DOMAIN users} : Broken[r] = {}
=============================================================================
