# EV Charger Management Platform: a TLA+ verification project

This directory models the platform from the charge point's socket to the browser's
page: charging sessions and the machines that deliver the energy, the money that
pays for it, the gateway that keeps the connections, support tickets and
notifications, the administration of stations, chargers, plugs and tariffs,
accounts and access, the HTTP routes with the pages that call them, and live
updates. It holds TLA+ modules translated from the source, TLC configurations that
check them on small instances, and TLAPS proofs of the main safety properties of
each part for every value of the constants. `PROJECT.json` is the machine-readable
index: which definition models which lines, what every run checks, which faulty
variant breaks each property.

Paths below are relative to `src/backend/src/` unless they begin with `docs/`,
`simulator/` or `frontend/` (which stands for `src/frontend/src/`).

## 1. The system

A Node.js backend (Express, Mongoose on MongoDB, `ws`, Socket.IO) serves drivers,
company administrators, operators and platform administrators over HTTP, and charge
points over OCPP 1.6J on WebSockets. A Next.js application is the browser's side. A
simulator plays the charge points.

| Component | State it keeps | Operations | Talks to |
|---|---|---|---|
| Charging sessions (`services/chargingSession.service.ts`, `models/chargingSession.model.ts`) | one document per session: status, transaction id, meter start and last, energy, amount, payment status; three unique indexes | `startSession`, `stopSession`, the pricing save hook | commands, registry, payments |
| Charge-point events (`services/sessionEvents.service.ts`, `ocpp/handlers.ts`) | the same documents, meter readings, connector and charger status | StartTransaction, MeterValues, StopTransaction, Authorize, StatusNotification, BootNotification, disconnect, the unconfirmed-session sweep | registry, payments, notifications |
| Gateway and registry (`ocpp/gateway.ts`, `ocpp/registry.ts`) | open sockets per charger, `isOnline`, the charger's token | connect, supersede, close, heartbeat sweep, boot reconciliation, shutdown | handlers, session events |
| Commands (`ocpp/commands.ts`) | pending calls with a timer each | RemoteStart, RemoteStop, late answers, cancellation | gateway |
| Wallet (`services/wallet.service.ts`) | balance and ledger | `applyMovement` (guarded `$inc` and ledger row) | payments |
| Payments (`services/payment.service.ts`) | one payment record per recharge and per session | recharge order, verify and webhook, collection (inline, sweep, top-up), back-off, refund | wallet, sessions, Razorpay |
| Stations, chargers, connectors, tariffs (their services and models) | one document each with a status; unique indexes on codes, OCPP ids, plug numbers and the active tariff | create, edit, set status, swap tariffs | sessions take a price snapshot; charge points write the same documents |
| Map and lookup (`services/stationMap.service.ts`) | none | markers, a station's plugs, one plug | the documents above |
| Complaints (`services/complaint.service.ts`) | one ticket with its status, history, resolution and assignee | file, follow up, move, assign, confirm, reopen, auto-close sweep | notifications |
| Notifications (`services/notification.service.ts`) | rows with a deduplication key | create, fan out to a company's staff, read one, read all | everyone |
| Accounts and access (`middlewares/`, auth, user, company and vehicle services, `realtime/auth.ts`) | users, companies, vehicles; rooms of live connections | register, create staff, suspend, edit; authenticate, authorize, scope; handshake, forced disconnect | every route |
| Web application (`frontend/app`, `components`, `context`, `hooks`, `services`) | what a page has loaded and was pushed | load, follow events, reload on reconnect | routes, realtime |

How they interact. A driver's start checks the plug, creates a row in `initiating`,
and awaits a RemoteStart; the charge point answers, authorises and sends a
StartTransaction, which confirms the row. Meter values update it. It ends by
StopTransaction, by a refused or unanswered start, by a fault, by a disconnect, by a
restart or by the sweep. The save that makes a row terminal prices it, and
settlement collects the amount from the driver's wallet: at once when the row
completes, later from a sweep, or after a top-up. Saves are followed by notifications
and by events on Socket.IO, neither awaited, and a page takes the events and its own
REST loads as they come.

What is hard here. There are no locks. Every handler reads a document, awaits
(a charge point's answer, another query), and later saves its in-memory copy;
mongoose writes the fields that copy changed, whatever the document holds by then.
Frames of one socket are handled concurrently. So the difficult behaviours are
check-then-act, saves of stale copies, timeouts that race late answers, commands,
frames and events lost with a connection, restarts between any two awaits, answers
that overtake each other, and transactions whose callback runs twice. The only
defences are the unique indexes, filters in updates, transactions and re-reading;
the project asks whether they are enough.

What makes each component correct:

- sessions: a plug and a driver have one open session; a session that ended has a
  price, never above the energy metered; a start nobody confirms is released;
- payments: no overdraft, every movement is in the ledger, each session and each
  recharge moves money once, a debt that can be paid is paid;
- gateway: the newest socket of a charger is the one commands go to, a revoked
  token opens nothing, a dead link leaves, every command is settled once;
- fleet: identities stay unique, an activation never leaves a company without a
  price, what a machine says of itself is undone by the machine only;
- complaints: the status is the last recorded move, no move is lost, a resolved
  ticket does not stay so for ever, the driver hears of every move;
- access: what a suspended person sends afterwards reaches nothing, and no page
  offers what the server refuses;
- live view: what a connected page at rest shows lacks no change.

## 2. Modules

| Module | Models | Extends |
|---|---|---|
| `ChargingSession` | session rows, all handlers in flight, commands, plugs, connections, restart | |
| `ChargingSessionProofs` | theorems about it: types, prices, reservations | `ChargingSession` |
| `BillingProofs` | theorems about it: transaction ids, energy and prices | `ChargingSessionProofs` |
| `Accounts` | abstract specification: what the payment code promises of money | |
| `Settlement` | payments, wallets, ledger, sweep, refunds, aborted commits, crashes | refines `Accounts` |
| `SettlementProofs` | theorems about it | `Settlement` |
| `Gateway` | one charge point's sockets, registry, heartbeats, sweep, boot and shutdown, commands | |
| `GatewayProofs` | theorems about it | `Gateway` |
| `Notifications` | triggers under way, rows, readers | |
| `Complaints` | tickets, handlers on copies, the sweep; composed with the notifications they send | `Notifications` |
| `ComplaintPage` | the ticket page's own copy of the rules | `Complaints` |
| `ComplaintsProofs` | theorems about the three | `ComplaintPage` |
| `Fleet` | stations, chargers, plugs and tariffs, administrators' requests, the machines' reports, the sessions faults end | |
| `Discovery` | what drivers are told of the fleet | `Fleet` |
| `FleetProofs` | theorems about both | `Discovery` |
| `Routes` | every router and every call of the browser's services | |
| `Access` | accounts, companies, cars, requests through the middlewares, live connections | `Routes` |
| `Pages` | every page of the application by role: guard, calls, links | `Access` |
| `AccessProofs` | theorems about the three | `Pages` |
| `LiveView` | a browser's socket, pages, loads and pushed events | |
| `LiveViewProofs` | theorems about it | `LiveView` |
| `MC...` | the finite instances of each group | |

A faulty variant of a mapped definition stands beside it, named
`<definition>_<fault>`. For each property of a passing run, replacing the definition
by the variant makes TLC report that property.

### ChargingSession

State and code. `rows` is the `chargingsessions` collection (status `none` is an
absent row) and `readings` the stored meter readings. `op[p]` is a handler in
flight: the `kind` is the await it is suspended at, and `docs` are the copies it
read. `cmds` are commands on the wire, `plug` is the simulator's own state
per connector, `linked` the registry, `online`, `hwFault` and `cstat` the mirrored
status fields, `nextTxn` and `seeded` the id counter. `delivered` is a history
variable: the energy the plug's meter counted since the session's
StartTransaction was sent. No action reads it.

Actions. Each `await` ends an action. `startSession` is the checks,
`createSession` the insert under the unique indexes and the sending of RemoteStart,
`markFailed` the save after a refusal or `commandTimeout`. `stopSession`,
`requestStop`, `saveStopping` and `saveStopOffline` are the stop request.
`onStartTransaction`/`saveConfirmed`/`reseedTransactionIds`,
`onMeterValues`/`createReading`/`saveMeter` and
`onStopTransaction`/`saveFinished` are the three frames; each names its transaction, as
the simulator's do, and the fallback from a plug's number to the registry's transaction
(`ocpp/handlers.ts:513`, `:577`) is left out.
`failOpenSessions`/`failSessions`/`releaseConnectors` is the loop that a
disconnect, a fault and the boot reconciliation share.
`sweepUnconfirmedSessions`/`saveSwept` is the five-second sweep; it has a slot of
its own because it is single-flight. The charge point's steps (`chargerAcceptsStart`,
`sendStartTransaction`, `deliverEnergy`, `sendMeterValues`, `sendStopTransaction`,
`endOffline`, ...) come from `simulator/src/charger.ts`.

Saving. `Merge` is mongoose's `save()`: it writes the fields a handler assigned
and leaves the others as they are in the database. The pricing hook
(`computeAmount`) runs on the *copy*, as in the code. `ConnectorIndexAdmits`,
`DriverIndexAdmits` and `TransactionIndexAdmits` are the unique indexes, applied
to every write.

Abstractions. Time is `elapse`: a session becomes older than
START_CONFIRMATION_TIMEOUT at some moment. One socket per charger (two are
`Gateway`'s subject). A connection's upgrade, BootNotification and first
StatusNotification are one step. The arrears check and the vehicle choice only
decide whether a start is attempted and are left out: a start is attempted whenever
the modelled checks allow. Identities of rows are chosen when the request begins.
The number of concurrent handlers is bounded by `Slots`, close handlers and fault
frames included.

### Settlement and Accounts

`bal` and `ledger` are wallets; `pay` is the status of each session's payment
record, `due` the pending ones whose `nextAttemptAt` has come, soonest first;
`rech` is the status of each recharge; `priced` and `unpaid` are the session's
fields. `op[p]` is a request in flight, `todo` the sessions it has still to
attempt. A transaction is one step: every read in one is a `findOneAndUpdate` or
leads to a save, so concurrent transactions on the same documents conflict. A
transaction's callback can run twice: `commitAborts` is a commit that fails with a
transient error, after which the database has forgotten the first attempt and the
documents in memory have not (`again`).

Abstractions. A session's amount is a constant (see `AmountFinalOncePriced` in
section 4). Back-off is an arbitrary finite wait, not 2^n minutes. The provider's
signature and HTTP calls are taken as verified. No code path blocks a wallet, so
`blocked` is left out. The sweep reads its two lists in two steps, as the code does;
the `now` it compares with is that of the second step, which allows slightly more.

`Accounts` knows only balances, the recharges credited and the sessions collected.
`ImplementsAccounts` maps `credited` to the recharges that are `paid` or
`refunded` and `collected` to the sessions whose payment is `paid`. `Accounts`
lets a credited recharge be reversed more than once, because the code does.

### Gateway

One charge point and several sockets, which the simulator opens one after another.
`socket[k]` has two ends: `phase` is the gateway's (`offered`, `verifying` while
`authenticate` awaits the charger, `open`, `closing`, `closed`) and `peer` the
charger's, so a link that dies in silence is `open` with its peer `lost`. `registry`
is the map of `registry.ts` for this charger. `frame[k]` is the handler of the last
frame, between its two awaits; `offWrite` are the close handlers' `isOnline: false`
that nobody awaits and that land at any later step; `sweep` and `reconcile` are
program counters of `sweepStaleConnections` (`sweepJudges`, `sweepMarksOffline`,
`sweepTerminates`) and `reconcileOnlineStateAtBoot` (`reconcileFinds`,
`reconcileWipes`). `calls` are the commands: `captureConnection` is the `registry.get` of
`startSession` and `stopSession`, `sendCall` comes any time later and goes down the socket
captured, whatever the registry holds by then. `onConnection` drops an upgrade whose raw
socket died if the server has noticed, and registers it if not, even over a newer one.
`regenerateChargerToken` replaces the token at any point; once a handshake has read the
hash, the token replaced is still admitted.

A behaviour is the life of one process. A crash leaves only the stored fields, so
the states after a crash are the initial ones, which range over `isOnline`.

### Complaints, Notifications, ComplaintPage

`complaints` are the stored tickets with their history; `request[p]` is a handler
between reading its ticket and `save`, with both copies; `due` are the copies the
auto-close sweep has read and not yet saved; `overdue` says a ticket was resolved
more than seven days ago. `save` writes the fields a copy changed, pushes its history
entry, and looks at nothing else. Every handler's permissions are translated:
`Permitted` and `Explained` for staff, `MayAnswer` and `FollowUpAllowed` for drivers,
`MayAssign` for assignees, `applyReadScope` for who sees a ticket.

A notification is a task in `notifying`: `findStaff` looks up recipients, then
`createNotification` inserts one row per recipient, refused by the unique index on a
repeat and by the schema if the message does not fit 500 characters (`fits`).
`complaintCreated`, `complaintUpdated` and `complaintReopened` are what the handlers
trigger. A history entry carries the place it has on its handler's copy (`n`, a history
variable: no action reads it), which is the number its notification is keyed by:
`EveryMoveIsTold` asks for the row of that very event.

`ComplaintPage` translates the second copy of the rules that the page carries
(`frontend/app/complaints/[complaintId]/page.tsx`): `OffersAccepted` compares it with
the server's over every ticket reached, every user and every category.

### Fleet and Discovery

`store` has the documents of the four collections. A request (`request[p]`) reads
its document, runs `check` (the query for a clash) and `save`s its copy, each an
await apart; `Saved` is the field-wise merge and `IndexAdmits` the unique indexes.
`swapTariffs` is the transaction that activates a tariff and deactivates the other.
`handleStatusNotification` and `handleChargePointStatus` are the machines' atomic
updates over the same documents; a fault then goes on to `failSessions` and
`releaseConnectors`. `startSession`/`createSession` keep of a start only the await
between its look at the plug and its insert. `reports` numbers the reports and
stands for the clock of `faultReportedAt`.

`Discovery` states three reads of those documents: `listPublicStations` with
`availabilityByStation`, `listConnectorsForChargingAtStation` and
`getConnectorForCharging`.

### Routes, Access, Pages

`Routes` lists each router in its order. `Dispatched` is Express's rule, the first
route that matches; `services` are the browser's functions; `ServedTo[r]` are those
that a role's request gets through with, to the handler they were written for.

`Access`: `users`, `companies`, `vehicles` are the collections; `request[p]` walks
through `authenticate` (reads the account), `requireActiveCompany` (reads the
company), `checkClash` and its write, one await at a time; a suspension continues
with `disconnect`, which cuts the live connections it finds in the rooms. An edit of a car
may leave its plate out (`Named`), and then looks for no clash. `sockets`
are browsers' handshakes (`HandshakeUser`, `HandshakeCompany`) and connections.
`late[why]` is a history variable: the requests whose sender had been barred when they
came and ever since, because the account is suspended or because its company is.
`TypeOK` and `ReferencesOK` (what names an account or a company names one that
exists) are not asked of the run: `TypeCorrect` proves them.

`Pages` states each page of the application as three functions of the role: whom its
guard lets in, which calls it makes on loading or behind a control, and where it
leads. It is a data abstraction of the components: markup, fields and wording are
left out, and so is in which state of a document a control is shown. A page that shows
parts (`StationDetails` with its `StationForm`, `TicketDetails`, `StaffControls`) is
`Showing` of them.
`PagesKeepTheirPromises` joins it with `ServedTo` and with the guards of the pages
linked to; it is evaluated for the role of every account in the reached states, and
`MCAccess` reaches all four and the visitor; `PromisesKept` proves it for any accounts.

### LiveView

One browser and one charging session, which is a pair of counters: how often its
status and its energy changed. So "older" is a comparison of numbers. `link`,
`published`, `connects` and `uncommitted` are the shared socket of
`frontend/context/SocketContext.tsx` with React's delay between a `connect` and the
effects that follow it; `listeners` (how many are on the socket) and `attached` (the
page's effect has a cleanup to run) are `hooks/useSocketEvent.ts`; `view`, `latest` and
`requests` are `hooks/useAsyncData.ts`, where the server reads and answers in separate
steps. Frames to a browser that is not connected are lost, and a handler ignores one while
nothing is loaded. A render follows its state at once.

`missed` is a history variable: the copies the page has lost since its newest load was
issued, each with the window it fell into.

| Window | The copy was lost because |
|---|---|
| `connect` | no listener was there, and the connect that followed was the tab's first, which refetches nothing |
| `load` | an answer already read was under way: it overwrites what the push brought, or the push finds nothing loaded and is ignored |
| `order` | an older copy was pushed after a newer one |

`NothingMissed` compares what a page at rest shows with the stored row, field by field, and
allows a difference only if the very value it lacks is in `missed`.

## 3. Runs

| Run | Instance | States | Shows |
|---|---|---|---|
| `session_billing` | 1 session, 2 handlers + sweeper, meter 0..2, 1 restart, disconnects | 968,865 | `NeverOverbilled`, `ConfirmedIdStable`, `EnergyMatchesMeter` |
| `session_double_tap` | 1 driver, 2 plugs, 2 sessions, 2 handlers | 2,422,995 | `OneOpenSessionPerDriver` |
| `session_two_plugs` | 2 drivers, 2 plugs of one machine, 2 sessions, fault and restart | 1,998,190 | `OneOpenSessionPerConnector`, `TerminalSessionsPriced` |
| `session_liveness` | 1 session, 1 handler + sweeper, fault, restart, repeated StartTransaction | 34,690 | `UnconfirmedSessionsResolved`, `HandlersFinish` |
| `session_stuck` | 1 session, 2 handlers, a charge point that answers | | refutes `StoppingResolved` (section 4) |
| `settlement_races` | 2 debts, 1 recharge, one wallet, 2 requests + sweeper, 1 crash, 1 abort | 806,638 | `SettledOnce`, `CreditedOnce`, `LedgerChained`, `ProjectionAgreesUntilAbort`, `ImplementsAccounts`, `TypeOK` |
| `settlement_liveness` | a debt that can never be paid, one that can, batches of one, a crash | 27,464 | `OrphansAttempted`, `DebtsCollected` |
| `gateway` | 2 sockets, 1 command, 1 token rotation | 662,830 | `OpenIsRegistered`, `RevokedTokenNotAdmitted`, `SettledOnce`, `CallsSettle`, `MirrorHealsOnline`, `DeadLinksLeave` |
| `complaints` | 2 tickets of a driver, 1 operator, 1 platform administrator, 3 requests, sweep, texts that fit a notification and texts that do not | 723,325 | `StatusIsLastEntry`, `ResolvedIsExplained`, `HistoryIsAppendOnly`, `ResolvedIsNotLimbo`, `OffersAccepted`, `EveryMoveIsTold`, `OncePerEvent` |
| `fleet` | 2 companies, 2 sites, chargers and plugs, 3 tariffs, 2 requests, 2 reports | 793,749 | `IdentitiesUnique`, `ActivationNeverUnprices`, `ReportsOutliveSaves`, `MachineFaultEndsSessions`, `MarkersAgreeWithPlugs` |
| `access` | 5 accounts, 2 companies, 2 cars, 3 requests, 1 browser | 501,013 | `LateRequestsRefused`, `SuspendedSocketsRaced`, `PagesKeepTheirPromises` |
| `live_view` | 2 pages, 2 changes, 2 mounts, 2 losses, 2 logins, 1 failure | 2,552,744 | `OneListener`, `LoadsNeverGoBack`, `NothingMissed` |

Each is a hazard of the list in `PROJECT.json`, and each property has a comment in its
module that says what it means. The type invariants of the other modules (`TypeOK`)
are stated for proofs and are not among the properties of a run, but for that of
`Settlement`, where it also says that balances do not go below zero.

Bounds. Each race of the hazards list is between one handler that holds a stale copy
and one other, so two slots suffice, and the sweeps, close events, reports and charge
points are actors of their own beyond the slots. Where requests are counted
(`MaxRequests`), two can race each other and a third follow. In the session runs, two
sessions are the least that can compete for a plug, a driver or an id. `session_billing`
has one session, so its three properties are shown for sessions that have their plug to
themselves. For any number of them `ConfirmedIdStable` is proved, and `NeverOverbilled` as
long as no transaction id is used twice; with two sessions `EnergyMatchesMeter` fails when their starts overlap
on a plug, and `NeverOverbilled` after a restart that reuses an id (section 4). A meter that counts to 2 gives two
distinct increments, hence out-of-order readings; runs that do not look at energy keep
it at 0. In `settlement_races` a recharge covers two collections, so that a second
collection of one session would succeed if it were attempted, and the second debt
competes for the same balance. In `settlement_liveness` the dear debt exceeds
everything the wallet can ever hold and the batch is one, so it fills every batch. In
`gateway` two sockets let one supersede another. In `complaints` a stored ticket and a
new one allow follow-ups, and the platform administrator may do what a company's may.
In `fleet` a second administrator can take every name the first wants, and the second
report can undo or repeat the first. In `live_view` two changes make an older and a
newer event, and two mounts and logins let a listener be left behind. Deadlock
checking is off: when nobody acts and nothing is under way, the system rests.

Fairness. The fair specifications assume only what Node, its timers and the
event loop give: a started promise continues, a command's timer fires, `setInterval`
keeps ticking, time and back-off pass, a query is answered, a trigger is carried out.
Nothing is assumed of people or of the provider, or of charge points in
`session_liveness`. `session_stuck` adds `ChargerFairness` (a charge point answers,
stops when asked and reconnects), so that its counterexample is not the fault of a
silent machine. `Gateway` assumes that a charge point on a live link boots and beats
(`simulator/src/charger.ts` does so on a timer), that a dead link is silent in the
end, and that a socket the gateway closes reports it (`ws` destroys one whose peer does not
answer the close); `MirrorHealsOnline` needs the first, `DeadLinksLeave` the others.
Commands' timers are taken to run as long as the process does: a forced exit ends the
behaviour with everything in it.

## 4. Where the code and its documents disagree

One is a run, `session_stuck`: "Sessions never get stuck"
(`docs/design/charging-sessions.md:190`), but `stopSession` saves `stopping` on a copy read
before it awaited the charge point; a session that ended meanwhile is reopened and nothing
ends it again.

Seven further claims are stated as definitions that no run lists; put in a
configuration of the module's instance, TLC refutes each within seconds:

| Definition | Claim | What the code does |
|---|---|---|
| `AmountFinalOncePriced` (`ChargingSession`) | "Once priced, the number is final" (`models/chargingSession.model.ts:257`) | two handlers that both read an unpriced row both price it (line 265 tests the copy) |
| `MeterNeverRegresses` (`ChargingSession`) | the comparison rejects out-of-order readings (`services/sessionEvents.service.ts:257`) | it compares with a copy, and frames are handled concurrently |
| `TransactionIdsNotReused` (`ChargingSession`, two plugs, a restart) | "so a restart does not reuse one" (`services/sessionEvents.service.ts:607`) | ids given with refused starts are stored nowhere, so the seed is too low |
| `RefundedOnce` (`Settlement`) | "rejected rather than reversed twice" (`services/payment.service.ts:825`) | the status is read before the transaction and not in a filter |
| `ProjectionAgrees` (`Settlement`) | "the two cannot drift" (`services/payment.service.ts:464`) | a retried callback saves a document whose changes were already cleared |
| `SecondResolvedIsTold` (`Complaints`) | the key has a number, or "the second `resolved` would be swallowed as a duplicate and the driver never told" (`services/notification.service.ts:364`) | the number is the length of the history on the handler's copy (`services/complaint.service.ts:674`): of two resolutions decided from one copy, the second saved after the driver reopened the ticket, the second is swallowed |
| `ConnectRestoresTruth` (`LiveView`) | "This also covers the very first connect" (`frontend/app/monitor/page.tsx:184`; `frontend/app/sessions/[sessionId]/page.tsx:565` says the same) | both refetch `if (reconnectCount > 1)`: a change between a page's first load and the tab's first connect is not shown until the next event or reconnect |

The third has the gravest consequence. A refused StartTransaction is answered with an id of
its own (`ocpp/handlers.ts:470`) that is stored nowhere, and the simulator's charge point
charges under it (`simulator/src/charger.ts:246` does not look at the status); a driver who
cancels after the plug authorised the tag is one way there. If the backend restarts then,
`highestTransactionId` finds a lower id or none, the next session confirmed on another plug
is stored under the first plug's id, and what that plug reports reaches this session: the
instance of `session_two_plugs` with `MaxFaults` = 0 violates `TransactionIdsNotReused`, and
with `MaxMeter` = 1 also `NeverOverbilled`, the second driver paying for a watt-hour that
the first plug metered. Without the restart the same instance (657,106 states) reuses no
id. Section 5 proves both halves in general: no id is used twice until the first restart
(`CountedIdsApart`), and a bill above the meter needs one that is
(`UniqueIdsBillWithinMeter`).

And these follow from the models, or were met while translating, without a property of
their own:

- Sessions. A reading or a StopTransaction held over a disconnect writes energy on a
  row that has already failed (`services/sessionEvents.service.ts:281` calls it
  frozen). A StartTransaction repeated while its first copy is still being handled
  gets a second id (line 162 says the same one): `ConfirmedIdStable` fails with
  `ResendStart`. A start that was authorised on a plug and then abandoned (its driver
  stops the session) still sends its StartTransaction, and that resets the plug's
  counter (`simulator/src/charger.ts:237` does not look whether another transaction
  has begun since line 192): the session that charges there by then gets readings
  below its start value, and `EnergyMatchesMeter` fails with two sessions on a plug.
  `startSession` does not read the station's status, so a plug of a suspended station
  can be started by its code. A top-up stops at the first debt it cannot cover
  although a later one may be cheaper (`services/payment.service.ts:553`).
- Gateway. "No race" (`ocpp/gateway.ts:344`): the `updateMany` of the start-up
  reconciliation can mark offline a charger that has just booted, until its next
  heartbeat; this is why `MirrorHealsOnline` is a liveness property. `cancelPending` is
  "used on shutdown and when a socket dies" (`ocpp/commands.ts:116`), but only the
  shutdown calls it: the calls of a socket that died wait for their timer.
- Complaints. "closed stays terminal" (`constants/complaint.ts:93`): a save of an older
  copy, a driver's reopening for one, moves a ticket that has been closed meanwhile,
  and the sweep can close one that was just reopened. The history keeps both moves.
- Fleet. Two deactivations that overlap, or one that overlaps a swap, leave a company
  without a price though `services/tariff.service.ts:159` counts the others first; so
  `ActivationNeverUnprices` lets the save of a deactivation, and nothing else, take the
  last price. A company administrator's save of
  an older copy can lift a suspension (`docs/design/stations.md:135`). A plug may be
  given a DC type while its charger becomes an AC one. Two concurrent edits of
  latitude and longitude leave the derived `location` out of step. A session created
  just as its machine reports a fault is not ended (`MachineFaultEndsSessions` is
  about those that were there), and a machine's fault hides behind the `faulted` an
  administrator set before. A plug whose session is not confirmed yet still counts as
  available on the map.
- Access. "`requireActiveCompany` on every route, as everywhere"
  (`routes/analytics.routes.ts:37`): the charging, complaint and payment routes leave it
  out (two of them say so on purpose), so the staff of a suspended company keep them
  until their account is suspended. Two platform administrators can suspend each other
  (`services/user.service.ts:229` refuses only oneself). A handshake that read the
  account before its suspension and joins its rooms after the disconnect stays
  connected (`raced`). The middlewares read the account and the company one after the
  other, so while one suspension gives way to the other a request of somebody who is
  barred throughout can pass both; `LateRequestsRefused` speaks of each reason alone.
- Pages. The tariff page offers to deactivate the only active tariff, and the
  connector form offers DC plugs on AC chargers: both are states of a document, which
  `Pages` abstracts from. The error view of `companies/[companyId]` links everyone to
  the list only the platform may open.
- Live updates. After the server cut a connection, Socket.IO's client does not
  reconnect although the badge says so. `setData` takes no ticket: a load read
  before a pushed change and answered after it puts the older state back
  (`frontend/hooks/useAsyncData.ts:84`), and a change pushed while nothing is loaded is
  ignored: the `load` window, which `NothingMissed` excepts. The driver's home, the
  fleet status, the active sessions and the notification page do not refetch on a
  reconnect.

## 5. Proofs

The theorems hold for any sets of sessions, drivers, plugs, chargers, recharges,
sockets, tickets, documents, accounts, companies, cars and browsers, any number of
requests in flight, any amounts and bounds. Every inductive invariant below was first
checked by TLC on the instance of its run.

| Module | Obligations | Theorems |
|---|---|---|
| `ChargingSessionProofs` | 1904 | `Invariance`, `TypeCorrect`, `TerminalPriced`, `ConnectorReserved`, `DriverReserved` |
| `BillingProofs` | 4298 | `IdsStable`, `UniqueIdsBillWithinMeter`, `UniqueIdsMeterEnergy`, `CountedIdsApart`, `BilledWithinMeter`, `EnergyIsMetered` |
| `SettlementProofs` | 1333 | `Requests`, `NeverOverdrawn`, `Refinement`, `LedgerReconciles`, `CollectedOnce`, `RechargedOnce`, `ProjectionFaithful` |
| `GatewayProofs` | 451 | `TypeCorrect`, `RegistryAgrees`, `RevokedRefused`, `CallsSettledOnce` |
| `ComplaintsProofs` | 1430 | `TypeCorrect`, `HistoryTellsStatus`, `ResolutionsExplained`, `MovesAreKept`, `RowsAreUnique`, `DriverHearsMoves`, `PageAgreesWithServer` |
| `FleetProofs` | 1244 | `TypeCorrect`, `IdentitiesStayUnique`, `MarkersAreHonest`, `ReportsStand`, `ActivationsKeepPrices` |
| `AccessProofs` | 1835 | `TypeCorrect`, `LateRefused`, `SuspensionsCut`, `EveryRouteReached`, `PromisesKept` |
| `LiveViewProofs` | 1370 | `TypeCorrect`, `LoadsMoveForward`, `ListensOnce`, `PageAtRestIsCurrent` |

Assumptions. The constants' are the named `ASSUME`s: `ConstantsAssumption`,
`MoneyAssumption`, `MaxSocketAssumption`, `RolesAssumption`, `ComplaintsAssumption`,
`FleetAssumption`, `InputsAssumption`, `AccessAssumption`, `StartAssumption` and
`LiveViewAssumption` state typing and that the null values are not members; that the
sessions of `Settlement` are finitely many (they are put in lists); and that at the
start exactly the staff accounts have a company. `StoredAssumption` of `Complaints` and
of `Fleet` says what a collection satisfies when the process starts: the tickets stored
have a history that ends with their status, and no two documents share a key of a
unique index. The theorems of `BillingProofs` and `DriverHearsMoves` have hypotheses of their
own, given below.

### ChargingSession

`TypeOK` and `TerminalSessionsPriced` are not inductive: a save writes fields of a
copy that was read arbitrarily long ago. `SessionInv` adds what the copies can be:

- `HandlerInv`: a handler works on a session; a copy it holds is of a stored row
  and has that row's connector (rows are failed, never deleted, and never move to
  another plug); and if the copy is priced, so is the row. The last is the heart of
  `TerminalPriced`: a save that makes a row terminal either prices it, or comes from
  a copy that was already priced, in which case the row is too;
- `FreshInv`: an identity a request is about to insert is unused and its own;
- `CommandInv`: a command someone still waits for has exactly one waiting handler;
- a stored row has a connector, and an absent one no price.

`Invariance` proves it with one step per action. `ConnectorReserved` and
`DriverReserved` use a different fact: every step writes at most one row, and only
one its unique index admits. They cover the saves that reopen a finished session.

### Transaction ids

`IdsStable` assumes `~ResendStart`: with a charge point that repeats a StartTransaction
the property fails (section 4). A row gets its id with the status `active`, in
`saveConfirmed` only; the other handlers' saves of stale copies keep both fields or end
the session (`RowSteady`). What could part the row from its plug is a second
confirmation after the plug has begun. `IdInv` says why there is none: the right to
confirm a session is one thing (`OneStart`), held as a RemoteStart on the wire, then by
a plug that prepares, then by a StartTransaction being handled, and used up once the plug
charges (`PlugSound`); while it is held, the row has no id. The proof gives each step either as `Steady`, when it confirms
nothing and hands nothing on, or as one of the transfers. It holds across
restarts, where ids may be reused (`TransactionIdsNotReused` is refuted).

### Energy and price

Three theorems, all for `~ResendStart`. The first two hold over any number of restarts;
`NoIdReused` says that the id a plug charges under leads, if anywhere, to the session it
charges (`TransactionIdsNotReused`), and that an id about to be stored is on no frame in
flight.

| Theorem | Statement |
|---|---|
| `UniqueIdsBillWithinMeter` | `Spec /\ []NoIdReused => []NeverOverbilled` |
| `UniqueIdsMeterEnergy` | `Spec /\ []NoIdReused /\ []OneStartPerPlug => []EnergyMatchesMeter` |
| `CountedIdsApart` | `Spec => [](restarts = 0 => NoIdReused)` |

So a reused id is the only thing that can bill a driver for energy of another plug, and
the counter `allocateTransactionId` gives none twice until a restart sets it back to what
`highestTransactionId` finds. `BilledWithinMeter` and `EnergyIsMetered` are what follows
with `restarts = 0` in place of `NoIdReused`.

A row's price is computed from the energy on the copy being saved, that from two readings
on copies, and `onMeterValues`, `onStopTransaction` and the failure handlers write them
in any order; a frame finds its row by nothing but the transaction id. `NeverOverbilled`
alone is far from inductive. `BillInv` adds, for everything that can still reach a row:

- `RowBilled` and `WithinMeter`: a stored row, and every copy of one in a handler, has an
  opening reading exactly if it has an id; a copy with an id agrees with the row on both;
  its last reading is no further above the opening one, and its energy no more, than what
  was delivered. `consumedWh` and `calculateAmountPaise` then keep the bound
  (`ConsumedWithin`, `PriceGrows`);
- `FrameSound`, `MatchSound`: the reading a frame carries is within what was delivered to
  whichever row has the frame's id, before and after the handler found that row;
- `StartSound`, `PlugBilled`: a plug has counted, since the opening reading it sent, or
  since its row's, no more than was delivered.

`BillInv` speaks of no counter of ids; its steps that follow an id from a plug or a frame
to a row take from `NoIdReused` that it is the right row. Disconnects, faults, restarts,
the sweep, cancelled and timed-out starts, refused starts that charge anyway, frames kept
over a lost link and saves of arbitrarily old copies are all in it. The hypothesis is one
that behaviours with restarts do satisfy: TLC reaches, under it, a state after a restart
with one session billed and another one confirmed since.

`CountedIdsApart` rests on `CounterInv`, which a restart ends: the counter was never set
back (`seeded`), every id in a row, frame, handler or plug is at most the counter's, the
one a confirmation is about to store is on no row, plug, frame or other handler, and
the one a plug charges under leads to no other session. It implies `NoIdReused`
(`CountedNotReused`).

The proofs give most steps as `Calm` (ids and opening readings stay, the energy delivered
only grows), with one lemma for all of them, and `Quiet` and `PlugStill` for handlers and
plugs that do nothing the invariants speak of. The rest are steps of their own: a
confirmation, a refusal, a reading, a StopTransaction, and the meter itself. Each is
proved once for the three invariants (`Upheld`).

`UniqueIdsMeterEnergy` also assumes `OneStartPerPlug`: a plug works on one start at a time,
and on none while it charges. The unique index on open sessions gives a plug one session
at a time, so only a start whose session was given up can overlap the next one. Without
the hypothesis the property fails (section 4). A save writes the fields its handler
changed, and `onMeterValues` and `onStopTransaction` change the last reading and the energy;
the two stay together as long as both change or neither does, and that breaks only where
`consumedWh` cuts a span below 0 to 0. `EnergyInv` says no reading is below the opening one:

- `Tallies`: on a row and on every copy the energy is the span, and the span is not
  negative;
- `FrameAbove`, `MatchAbove`: nor would it be with the reading a frame carries, before and
  after the handler found the row;
- `StartAbove`, `PlugAbove`: a plug counts from the value of the StartTransaction that is
  being handled, and a plug that charges from one not below its session's opening reading.

TLC checked the invariants first, with the hypotheses as constraints: `BillInv` on the
instance of `session_billing`, with two sessions and no restart (34,034,688 states), and
with two sessions on two plugs and a restart; `EnergyInv` with one session on a meter that
counts to 2 (257,355 states) and two sessions on one plug with one slot (1,539,797 states).

### Settlement

`TypeInv` strengthens `TypeOK` by what suspended requests rely on: each carries
what its next step needs (`RequestsInv`), a recharge waits for its order in one
request only (`OrdersInv`), a reversal in flight is of a credited recharge
(`RefundsInv`), and a retried transaction follows an abort (`AbortsInv`). The
lemma `Movements` then says that every step leaves the money alone, collects one
unpaid session, credits one unclaimed recharge, or reverses one that was
credited, each with its ledger row. From it follow

- `Refinement`: `Settlement` implements `Accounts`;
- `NeverOverdrawn`: balances are naturals;
- `LedgerReconciles`: ledger rows chain and end at the balance;
- `CollectedOnce` and `RechargedOnce`: through `RowsInv`, which says the set of a
  session's debit rows is a singleton if its payment is paid and empty otherwise, and
  likewise for recharges;
- `ProjectionFaithful`: paymentStatus and payment agree until the first aborted
  commit. After one they need not.

### Gateway

- `RegistryAgrees`: `OpenIsRegistered` with the converse, `OpenIffRegistered`: a close
  handler clears the registry only if it still names its own socket
  (`ocpp/registry.ts`), so a superseded socket cannot unregister its successor;
- `RevokedRefused`: through `TokenInv`. The check compares the token presented with the
  hash read before the await, so a socket that dialled with a replaced token is followed
  from its dialling on: tokens only grow, and the hash it read is already newer. It says
  nothing of a token replaced between that read and the upgrade, which is admitted;
- `CallsSettledOnce`: an answer, a rejection, a timer and the shutdown each settle a call
  only while it is pending.

### Complaints

`Inv` is about the copies. `HandlersInv`: the original of a copy is an earlier state of
the stored ticket (`CopyOf`: the stored history is no shorter, the owner the same, a
conclusion once given stays), its change adds at most
one history entry, and that entry's status is the copy's (`Change`). `TicketsInv` says a
stored ticket is `Consistent`, and `DueInv` that the sweep's copies are of resolved ones.
`save` then writes a status only together with its history entry, so the history tells the
status whatever the order of the saves. `Announced` and `TasksInv` tie the
notifications a handler will trigger to the entry it will write.

- `HistoryTellsStatus`, `ResolutionsExplained`, `PageAgreesWithServer` follow from `Inv`;
  `MovesAreKept` and `RowsAreUnique` are proved with it;
- `DriverHearsMoves` (`EveryMoveIsTold`): a save of a move that is the driver's to hear of
  (`ForDriver`) sets off the trigger of that move's own event, by `Recorded`, and no step
  takes a row or an unfinished trigger away (`Hears`, `HearsThen`). `EveryMoveIsTold` leaves
  out resolutions whose text does not fit a notification, which the schema refuses. The
  theorem assumes that a ticket stored at the start has moved once at most, and not by a
  resolution, because whoever was told of earlier moves is not part of the initial state.
  That two overlapping moves may share an event is section 4's.

### Fleet and Discovery

`IInv`: `StoreInv` (documents have their schema and a plug's charger exists),
`UniqueInv` (no two share a key), `HardwareInv`, and `RequestInv`: the document a request
has read is still there, its copy differs only in fields such a request may change, and of
two requests that create, none has the other's identity.

- `IdentitiesStayUnique`: the query for a clash proves nothing, since it is an await
  before the save; the indexes do, and the merge of a stale copy is covered by them too;
- `ReportsStand`: a save never writes the hardware status, which `Saved` takes from what
  is stored;
- `ActivationsKeepPrices`: a swap leaves an active tariff, a creation adds one, and so
  only the save of a deactivation can take the last;
- `MarkersAreHonest`: the map and the station's own list read the same documents by
  different rules; a case for each of the latter's refusals.

### Access

- `TypeCorrect`: `TypeOK` with `ReferencesOK`, which makes it inductive: documents are
  inserted and edited but never deleted, and an account's role and company never
  change (`Kept`), so a reference that held when a request came holds when it writes;
- `LateRefused`: inductive with `LateStillBarred` (a late request's sender is still
  barred, for the reason it is listed under). A late request stands at a middleware
  that has yet to read the suspension; the step that reads it ends the request;
- `SuspensionsCut`: from `CutInv`. The statement itself is not inductive: a connection
  becomes open two reads after its account was checked. `CutSoon` follows it from the
  read of the account on: if what it was let in by has been suspended since, either a
  suspension that has yet to cut that very room is under way (`PendingRooms`), or one
  found the connection half open (`raced`). Only `disconnect` takes a room from
  `PendingRooms`, and it cuts or marks everyone in it.

### Routes and Pages

The last part of `AccessProofs` is about tables, so it goes through them once and
composes what it finds, instead of evaluating them in every state:

- `EveryRouteReached`: in each router two routes differ in the method, the length or a
  segment (`Shape`, `Differ`), so none hides a later one (`Unshadowed`). Mounting a
  router under a first segment keeps that (`MountedBuilt`), and so does mounting the next
  one under a segment not used before (`MountedNext`); `RouterBuilt` follows the order of
  the server's `routes/index.ts`. Swapping `sessions/active` and `sessions/:id`
  (`sessionRoutes_activeLast`) breaks the step of that router;
- `PromisesKept`: a call that spells out a route reaches it (`Answered`), which gives the
  calls each role is answered (`Answers`); the guards give the paths it is let into
  (`Guards`, `Doors`). Then one step per page and shared part says that it stays within
  both (`Keeps`), `ShowingKeeps` composes pages of parts, and `Settled` that nobody is
  sent on twice. `TypeCorrect` gives that an account has one of the four roles.

### LiveView

- `LoadsMoveForward`: `LoadInv`. Tickets are distinct, what was read is no newer than
  the row, and what the newest request has read is no older than what is shown, since the
  row it read only grew. An answer with an older ticket is dropped;
- `ListensOnce`: `LinkInv`, which is about the order on a connection: its `connect` event
  comes first, and once it is worked off the page has its listener;
- `PageAtRestIsCurrent`: `CarriedInv`. Of each field, the stored value is somewhere: shown,
  in an event not emitted yet or on its way (`Carries`; `PushInv` says no event is newer than
  the row), in a load that is under way or will follow the connection being made, behind a
  load that failed, or in `missed`. A page at rest has none of these open but the first and
  the last. Losing the connection empties the channel but owes the reload; where it does
  not, or where an answer or an older push takes the value away again, the step records it
  in one of the three windows.

### Only model-checked

Liveness under fairness is outside this prover's reach: `UnconfirmedSessionsResolved`,
`HandlersFinish`, `OrphansAttempted`, `DebtsCollected`, `CallsSettle`,
`MirrorHealsOnline`, `DeadLinksLeave`, `ResolvedIsNotLimbo`, `MachineFaultEndsSessions`.
Beyond the hypotheses of their theorems (no id used twice and, for the second, no two
starts that overlap on a plug), `NeverOverbilled` and `EnergyMatchesMeter` are checked with one
session only, and fail with two (section 4).

## 6. Not modelled

`PROJECT.json` lists every component with its reason. In short: passwords, tokens'
expiry and signatures; the payment provider's HTTP API; validation of descriptive
fields, and endpoints that edit only those; list queries, text search and distances;
the sums of the analytics and their charts; forms, layout and the map widget; the
notifications of sessions and payments (they go through the same operation as those
of complaints); events of connectors and connectivity (they take the path that
`LiveView` models for sessions); seeding and one-off scripts; the simulator's shell.

Two relations between modules are not composed: that a suspension (`Access`) bars the
requests of the other modules, which take an authorised sender as given; and that the
`isOnline` of `Gateway` is the one `ChargingSession` reads, which has one socket per
charger and one step for its handshake.

## 7. Plan

1. Done: `ChargingSession`, `Accounts`, `Settlement` and the proofs of both;
   `Gateway`; `Notifications` and `Complaints`; `Fleet` and `Discovery`; `Routes`,
   `Access` and `Pages`; `LiveView`.
2. Done: the safety properties of `Gateway`, `Complaints`, `Notifications`, `Fleet`,
   `Discovery` and `LiveView` proved, each with its type invariant; `ConfirmedIdStable`;
   `NeverOverbilled` and `EnergyMatchesMeter`, over restarts, as long as no id is used
   twice (and, for the second, no two starts overlap on a plug), and that none is until the
   first restart; that no route hides another and no page offers what will not open.
