--------------------------- MODULE ChargingSession ---------------------------
(***************************************************************************)
(* The lifecycle of charging sessions: the rows of the ChargingSession     *)
(* collection, and the handlers that read, hold and save them.             *)
(*                                                                         *)
(*   chargingSession.service.ts   startSession, stopSession (a person)     *)
(*   sessionEvents.service.ts     StartTransaction, MeterValues,           *)
(*                                StopTransaction, disconnects, faults and *)
(*                                the sweeper (the charger, or time)       *)
(*   chargingSession.model.ts     the unique indexes and the pricing hook  *)
(*                                                                         *)
(* Every handler reads a document, awaits, and later calls save() on its   *)
(* in-memory copy.  A handler in flight is a record op[p]; each await is a *)
(* step boundary at which any other handler may run.  save() writes the    *)
(* fields the handler changed, whatever the row holds by then; the only    *)
(* check the database makes is its unique indexes.                         *)
(***************************************************************************)
EXTENDS Integers, FiniteSets

CONSTANTS
  Sessions,       \* identities of the rows that may be created (with their idTags)
  Drivers, NoDriver,
  Connectors, NoConnector,
  Chargers, NoCharger,
  ChargerOf,      \* the charger a connector belongs to
  NoSession,
  Slots,          \* bound: the handlers that may be in flight at once
  Sweeper,        \* the slot of the single-flight 5-second sweep
  PricePerKwh,    \* the tariff snapshotted on every session, in paise
  MaxMeter,       \* bound: the reading at which a plug stops counting
  MaxTxn,         \* bound: transaction ids allocated by one process
  MaxFaults,      \* bound: faults reported
  MaxRestarts,    \* bound: restarts of the backend process
  ResendStart     \* may a charge point repeat a StartTransaction whose answer it lost?

ASSUME ConstantsAssumption ==
  /\ NoDriver \notin Drivers
  /\ NoConnector \notin Connectors
  /\ NoCharger \notin Chargers
  /\ NoSession \notin Sessions
  /\ ChargerOf \in [Connectors -> Chargers]
  /\ Sweeper \notin Slots
  /\ PricePerKwh \in Nat /\ MaxMeter \in Nat /\ MaxTxn \in Nat
  /\ MaxFaults \in Nat /\ MaxRestarts \in Nat
  /\ ResendStart \in BOOLEAN

VARIABLES
  rows,       \* the chargingsessions collection; status "none" is an absent row
  readings,   \* the meterreadings collection: the readings stored per session
  overdue,    \* sessions requested more than START_CONFIRMATION_TIMEOUT ago
  op,         \* the handlers in flight, with the copies they hold
  cmds,       \* commands on their way to a charge point
  plug,       \* the charge point's own state, per connector
  delivered,  \* energy the plug's meter counted since each session's
              \* StartTransaction was sent (history, never read by the code)
  linked,     \* chargers in the connection registry
  online,     \* Charger.isOnline
  hwFault,    \* Charger.hardwareStatus is "faulted"
  cstat,      \* Connector.status
  nextTxn,    \* the registry's transaction id counter
  seeded,     \* the boot-time seed of that counter has been applied
  faults, restarts

db == <<rows, readings, online, hwFault, cstat>>
net == <<cmds, plug, delivered, linked>>
counters == <<nextTxn, seeded>>
bounds == <<faults, restarts>>
vars == <<rows, readings, overdue, op, cmds, plug, delivered, linked, online,
          hwFault, cstat, nextTxn, seeded, faults, restarts>>

Null == -1
NoTxn == 0
Procs == Slots \cup {Sweeper}

SESSION_STATUSES == {"initiating", "active", "stopping", "completed", "failed"}
OPEN_SESSION_STATUSES == {"initiating", "active", "stopping"}
TERMINAL == {"completed", "failed"}
STOP_REASONS == {"none", "Remote", "Local", "ChargerDisconnected",
                 "StartTimeout", "Rejected", "HardwareFault"}
Meters == {Null} \cup 0..MaxMeter

Row == [status : SESSION_STATUSES \cup {"none"},
        driver : Drivers \cup {NoDriver}, con : Connectors \cup {NoConnector},
        txn : Nat, start : Meters, last : Meters, energy : 0..MaxMeter,
        amount : Nat \cup {Null}, paid : BOOLEAN, reason : STOP_REASONS]

NoRow == [status |-> "none", driver |-> NoDriver, con |-> NoConnector,
          txn |-> NoTxn, start |-> Null, last |-> Null, energy |-> 0,
          amount |-> Null, paid |-> FALSE, reason |-> "none"]

NoDocs == [s \in Sessions |-> NoRow]
HandlerKinds == {"idle", "create", "awaitStart", "markFailed",
                 "stopLookup", "awaitStop", "stopping", "stopOffline",
                 "rxStart", "confirm", "reseed", "confirmAgain",
                 "rxMeter", "reading", "meter", "rxStop", "finish",
                 "rxFail", "fail", "sweep"}

Handler == [kind : HandlerKinds, sid : Sessions \cup {NoSession},
            driver : Drivers \cup {NoDriver}, con : Connectors \cup {NoConnector},
            charger : Chargers \cup {NoCharger}, rest : SUBSET Chargers,
            txn : Nat, wh : 0..MaxMeter, why : STOP_REASONS,
            docs : [Sessions -> Row]]

Idle == [kind |-> "idle", sid |-> NoSession, driver |-> NoDriver,
         con |-> NoConnector, charger |-> NoCharger, rest |-> {},
         txn |-> NoTxn, wh |-> 0, why |-> "none", docs |-> NoDocs]

IsOpen(r) == r.status \in OPEN_SESSION_STATUSES
IsTerminal(r) == r.status \in TERMINAL

-----------------------------------------------------------------------------
(* Energy and price *)

consumedWh(startWh, endWh) ==
  IF startWh = Null \/ endWh = Null \/ endWh < startWh THEN 0 ELSE endWh - startWh

\* round(energyWh * pricePerKwhPaise / 1000), half up
calculateAmountPaise(energyWh, pricePerKwhPaise) ==
  IF energyWh <= 0 \/ pricePerKwhPaise <= 0 THEN 0
  ELSE (2 * energyWh * pricePerKwhPaise + 1000) \div 2000

\* Faulty variant: only a session that completed is priced.
computeAmount_completedOnly(r) ==
  IF r.status = "completed" /\ r.amount = Null
  THEN LET amount == calculateAmountPaise(r.energy, PricePerKwh)
       IN  [r EXCEPT !.amount = amount, !.paid = @ \/ amount = 0]
  ELSE r

\* The pre('save') hook; it sees the handler's copy, not the stored row.
computeAmount(r) ==
  IF IsTerminal(r) /\ r.amount = Null
  THEN LET amount == calculateAmountPaise(r.energy, PricePerKwh)
       IN  [r EXCEPT !.amount = amount, !.paid = @ \/ amount = 0]
  ELSE r

-----------------------------------------------------------------------------
(* The database: partial field updates guarded by the unique indexes *)

Keep(cur, old, new) == IF new = old THEN cur ELSE new

\* $set of exactly the fields in which the copy differs from what was read.
Merge(cur, old, new) ==
  [status |-> Keep(cur.status, old.status, new.status),
   driver |-> cur.driver,
   con    |-> cur.con,
   txn    |-> Keep(cur.txn, old.txn, new.txn),
   start  |-> Keep(cur.start, old.start, new.start),
   last   |-> Keep(cur.last, old.last, new.last),
   energy |-> Keep(cur.energy, old.energy, new.energy),
   amount |-> Keep(cur.amount, old.amount, new.amount),
   paid   |-> Keep(cur.paid, old.paid, new.paid),
   reason |-> Keep(cur.reason, old.reason, new.reason)]

\* Faulty variant: the partial filter forgets `initiating`.
ConnectorIndexAdmits_confirmedOnly(s, r) ==
  r.status \in {"active", "stopping"} =>
    \A t \in Sessions \ {s} :
      rows[t].status \in {"active", "stopping"} => rows[t].con # r.con

\* one_open_session_per_connector
ConnectorIndexAdmits(s, r) ==
  IsOpen(r) => \A t \in Sessions \ {s} : IsOpen(rows[t]) => rows[t].con # r.con

\* Faulty variant: no index, only the check in startSession.
DriverIndexAdmits_checkOnly(s, r) == TRUE

\* one_open_session_per_driver
DriverIndexAdmits(s, r) ==
  IsOpen(r) => \A t \in Sessions \ {s} : IsOpen(rows[t]) => rows[t].driver # r.driver

\* unique_confirmed_transaction_id
TransactionIndexAdmits(s, r) ==
  r.txn # NoTxn => \A t \in Sessions \ {s} : rows[t].txn # r.txn

IndexesAdmit(s, r) ==
  /\ ConnectorIndexAdmits(s, r)
  /\ DriverIndexAdmits(s, r)
  /\ TransactionIndexAdmits(s, r)

\* What rows[s] becomes when a handler saves `new`, having read `old`.
Saved(s, old, new) == Merge(rows[s], old, computeAmount(new))

\* A singleton: the largest id a stored session holds.
highestTransactionId ==
  {n \in {rows[s].txn : s \in Sessions} \cup {NoTxn} :
     \A s \in Sessions : rows[s].txn <= n}

seedTransactionId(highest) == IF highest > nextTxn THEN highest ELSE nextTxn

allocateTransactionId(counter) == counter + 1

OpenOfDriver(d) == {s \in Sessions : IsOpen(rows[s]) /\ rows[s].driver = d}
OpenOnConnector(c) == {s \in Sessions : IsOpen(rows[s]) /\ rows[s].con = c}
OpenOnCharger(ch) == {s \in Sessions : IsOpen(rows[s]) /\ ChargerOf[rows[s].con] = ch}
OpenWithTxn(txn) == {s \in Sessions : IsOpen(rows[s]) /\ rows[s].txn = txn}
DocsOf(S) == [s \in Sessions |-> IF s \in S THEN rows[s] ELSE NoRow]
Loaded(h) == {s \in Sessions : h.docs[s].status # "none"}

Free(p) == p \in Slots /\ op[p].kind = "idle"
Enter(p, h) == op' = [op EXCEPT ![p] = h]
Leave(p) == op' = [op EXCEPT ![p] = Idle]
Goto(p, kind) == op' = [op EXCEPT ![p].kind = kind]

\* session.save() of the handler's copy of s; a duplicate key leaves the row alone.
Admitted(s, old, new) == IndexesAdmit(s, Saved(s, old, new))
Save(s, old, new) ==
  rows' = IF Admitted(s, old, new)
          THEN [rows EXCEPT ![s] = Saved(s, old, new)] ELSE rows

-----------------------------------------------------------------------------
(* What each handler does to its copy of the row *)

NewSession(d, c) ==
  [NoRow EXCEPT !.status = "initiating", !.driver = d, !.con = c]

MarkedFailed(r, why) == [r EXCEPT !.status = "failed", !.reason = why]

Stopping(r) == [r EXCEPT !.status = "stopping"]

\* Faulty variant: energy counted from zero instead of the opening reading.
Confirmed_fromZero(r, txn, meterStartWh) ==
  [r EXCEPT !.status = "active", !.txn = txn, !.start = 0, !.last = meterStartWh]

\* Faulty variant: the allocated id is sent to the charge point, not stored.
Confirmed_idNotStored(r, txn, meterStartWh) ==
  [r EXCEPT !.status = "active", !.start = meterStartWh, !.last = meterStartWh]

Confirmed(r, txn, meterStartWh) ==
  [r EXCEPT !.status = "active", !.txn = txn,
            !.start = meterStartWh, !.last = meterStartWh]

\* Faulty variant: the running total is left behind.
Metered_counterOnly(r, energyWh) == [r EXCEPT !.last = energyWh]

Metered(r, energyWh) ==
  [r EXCEPT !.last = energyWh, !.energy = consumedWh(r.start, energyWh)]

Finished(r, meterStopWh) ==
  [r EXCEPT !.status = "completed", !.last = meterStopWh,
            !.energy = consumedWh(r.start, meterStopWh),
            !.reason = IF r.status = "stopping" THEN "Remote" ELSE "Local"]

Failed(r, why) ==
  [r EXCEPT !.status = "failed", !.energy = consumedWh(r.start, r.last),
            !.reason = why]

-----------------------------------------------------------------------------
(* startSession: check, reserve the row, command the charge point, wait *)

assessStartability(c) ==
  /\ online[ChargerOf[c]]
  /\ ~hwFault[ChargerOf[c]]
  /\ cstat[c] \notin {"faulted", "unavailable", "charging", "occupied"}

\* The reads that precede the insert.  Every refusal leaves no trace; those
\* decided by other components (tariff, arrears, vehicle) may happen or not.
startSession(p, d, c, s) ==
  /\ Free(p)
  /\ rows[s].status = "none" /\ \A q \in Procs : op[q].sid # s
  /\ OpenOfDriver(d) = {}
  /\ assessStartability(c)
  /\ linked[ChargerOf[c]]
  /\ Enter(p, [Idle EXCEPT !.kind = "create", !.sid = s, !.driver = d, !.con = c])
  /\ UNCHANGED <<db, net, overdue, counters, bounds>>

\* ChargingSession.create, then sendRemoteStart on the connection found above.
createSession(p) ==
  LET h == op[p]
      r == NewSession(h.driver, h.con)
  IN
  /\ h.kind = "create"
  /\ \/ /\ ~IndexesAdmit(h.sid, r)
        /\ Leave(p)
        /\ UNCHANGED <<rows, cmds>>
     \/ /\ IndexesAdmit(h.sid, r)
        /\ rows' = [rows EXCEPT ![h.sid] = r]
        /\ Enter(p, [h EXCEPT !.kind = "awaitStart", !.docs[h.sid] = r])
        /\ cmds' = IF linked[ChargerOf[h.con]]
                   THEN cmds \cup {[type |-> "start", slot |-> p, sid |-> h.sid, con |-> h.con]}
                   ELSE cmds
  /\ UNCHANGED <<readings, online, hwFault, cstat, overdue, plug, delivered,
                 linked, counters, bounds>>

\* commands.ts: ten seconds without an answer.  The command may still arrive.
Abandoned(p) == {IF m.slot = p THEN [m EXCEPT !.slot = Sweeper] ELSE m : m \in cmds}

\* Faulty variant: only a start request is given up.
commandTimeout_startOnly(p) ==
  /\ op[p].kind = "awaitStart"
  /\ Enter(p, [op[p] EXCEPT !.kind = "markFailed", !.why = "StartTimeout"])
  /\ cmds' = Abandoned(p)
  /\ UNCHANGED <<db, overdue, plug, delivered, linked, counters, bounds>>

commandTimeout(p) ==
  /\ \/ /\ op[p].kind = "awaitStart"
        /\ Enter(p, [op[p] EXCEPT !.kind = "markFailed", !.why = "StartTimeout"])
     \/ /\ op[p].kind = "awaitStop"
        /\ Leave(p)
  /\ cmds' = Abandoned(p)
  /\ UNCHANGED <<db, overdue, plug, delivered, linked, counters, bounds>>

markFailed(p) ==
  LET h == op[p] IN
  /\ h.kind = "markFailed"
  /\ Save(h.sid, h.docs[h.sid], MarkedFailed(h.docs[h.sid], h.why))
  /\ Leave(p)
  /\ UNCHANGED <<readings, online, hwFault, cstat, overdue, net, counters, bounds>>

-----------------------------------------------------------------------------
(* stopSession *)

\* The first read.  A terminal or already stopping session is refused or
\* returned as it is; an unconfirmed one is cancelled.
stopSession(p, s) ==
  /\ Free(p)
  /\ rows[s].status \in {"initiating", "active"}
  /\ Enter(p, [Idle EXCEPT !.kind = IF rows[s].status = "initiating"
                                    THEN "markFailed" ELSE "stopLookup",
                           !.sid = s, !.why = "StartTimeout",
                           !.docs[s] = rows[s]])
  /\ UNCHANGED <<db, net, overdue, counters, bounds>>

\* After the charger was read: command it, or fail the session if it is gone.
requestStop(p) ==
  LET h == op[p]
      c == h.docs[h.sid].con
  IN
  /\ h.kind = "stopLookup"
  /\ \/ /\ ~linked[ChargerOf[c]]
        /\ Goto(p, "stopOffline")
        /\ UNCHANGED cmds
     \/ /\ linked[ChargerOf[c]]
        /\ IF h.docs[h.sid].txn = NoTxn
           THEN Leave(p) /\ UNCHANGED cmds
           ELSE /\ Goto(p, "awaitStop")
                /\ cmds' = cmds \cup {[type |-> "stop", slot |-> p, sid |-> h.sid, con |-> c]}
  /\ UNCHANGED <<db, overdue, plug, delivered, linked, counters, bounds>>

saveStopping(p) ==
  LET h == op[p] IN
  /\ h.kind = "stopping"
  /\ Save(h.sid, h.docs[h.sid], Stopping(h.docs[h.sid]))
  /\ Leave(p)
  /\ UNCHANGED <<readings, online, hwFault, cstat, overdue, net, counters, bounds>>

saveStopOffline(p) ==
  LET h == op[p] IN
  /\ h.kind = "stopOffline"
  /\ Save(h.sid, h.docs[h.sid], Failed(h.docs[h.sid], "ChargerDisconnected"))
  /\ Leave(p)
  /\ UNCHANGED <<readings, online, hwFault, cstat, overdue, net, counters, bounds>>
-----------------------------------------------------------------------------
(* The charge point: simulator/src/charger.ts, and what the handlers'      *)
(* comments expect of real hardware (replayed readings, repeated starts).  *)
(* Its StatusNotifications other than faults are single atomic updates and *)
(* are folded into the step that sends them.                               *)

\* The caller of command m goes to handler h, unless it has given up waiting.
Answer(m, h) ==
  /\ cmds' = cmds \ {m}
  /\ op' = IF m.slot \in Slots THEN [op EXCEPT ![m.slot] = h] ELSE op

Unplugged(pl) == [pl EXCEPT !.phase = "idle", !.txn = NoTxn, !.sid = NoSession]

\* A stop finds nothing running; a start finds the plug taken, or unfit.
chargerRejects(m) ==
  /\ m \in cmds
  /\ m.type = "stop" => plug[m.con].phase = "idle"
  /\ Answer(m, IF m.type = "stop" THEN Idle
               ELSE [op[m.slot] EXCEPT !.kind = "markFailed", !.why = "Rejected"])
  /\ UNCHANGED <<db, overdue, plug, delivered, linked, counters, bounds>>

chargerAcceptsStart(m) ==
  /\ m \in cmds /\ m.type = "start"
  /\ plug[m.con].phase = "idle"
  /\ Answer(m, Idle)
  /\ plug' = [plug EXCEPT ![m.con].begin[m.sid] = "preparing"]
  /\ cstat' = [cstat EXCEPT ![m.con] = "preparing"]
  /\ UNCHANGED <<rows, readings, online, hwFault, overdue, delivered, linked,
                 counters, bounds>>

chargerAcceptsStop(m) ==
  /\ m \in cmds /\ m.type = "stop"
  /\ plug[m.con].phase # "idle"
  /\ Answer(m, [op[m.slot] EXCEPT !.kind = "stopping"])
  /\ plug' = [plug EXCEPT ![m.con].phase = IF @ = "charging" THEN "asked" ELSE @]
  /\ UNCHANGED <<db, overdue, delivered, linked, counters, bounds>>

\* Authorize and its answer: one read of the session that holds the tag.
authorizeIdTag(c, s) ==
  /\ plug[c].begin[s] = "preparing"
  /\ \/ /\ IsOpen(rows[s])
        /\ plug' = [plug EXCEPT ![c].begin[s] = "authorized"]
        /\ UNCHANGED cstat
     \/ /\ plug' = [plug EXCEPT ![c].begin[s] = "no"]  \* Invalid, or Blocked for arrears
        /\ cstat' = [cstat EXCEPT ![c] = "available"]
  /\ UNCHANGED <<rows, readings, online, hwFault, overdue, op, cmds, delivered,
                 linked, counters, bounds>>

\* The meter restarts at zero (the simulator) or is a running total.
sendStartTransaction(p, c, s) ==
  /\ Free(p) /\ linked[ChargerOf[c]]
  /\ \/ /\ plug[c].begin[s] = "authorized"
        /\ \E wh \in {0, plug[c].meter} :
             plug' = [plug EXCEPT ![c].begin[s] = "starting",
                                  ![c].base = wh, ![c].meter = wh]
     \/ /\ plug[c].begin[s] = "lost" /\ nextTxn < MaxTxn
        /\ plug' = [plug EXCEPT ![c].begin[s] = "starting"]
  /\ Enter(p, [Idle EXCEPT !.kind = "rxStart", !.sid = s, !.con = c,
                           !.charger = ChargerOf[c], !.wh = plug'[c].base])
  /\ UNCHANGED <<db, overdue, cmds, delivered, linked, counters, bounds>>

\* Energy flows while a transaction is open at the plug, connected or not.
deliverEnergy(c) ==
  /\ plug[c].phase = "charging" /\ plug[c].meter < MaxMeter
  /\ plug' = [plug EXCEPT ![c].meter = @ + 1]
  /\ delivered' = [s \in Sessions |->
                     IF s = plug[c].sid \/ plug[c].begin[s] = "starting"
                     THEN delivered[s] + 1 ELSE delivered[s]]
  /\ UNCHANGED <<db, overdue, op, cmds, linked, counters, bounds>>

\* Pipelined, not awaited; an earlier reading may be repeated or replayed.
sendMeterValues(p, c, wh) ==
  /\ Free(p) /\ linked[ChargerOf[c]]
  /\ plug[c].phase = "charging"
  /\ wh \in plug[c].base .. plug[c].meter
  /\ Enter(p, [Idle EXCEPT !.kind = "rxMeter", !.txn = plug[c].txn, !.wh = wh])
  /\ UNCHANGED <<db, net, overdue, counters, bounds>>

\* Asked to by RemoteStop, or a hand on the machine.
sendStopTransaction(p, c) ==
  /\ Free(p) /\ linked[ChargerOf[c]]
  /\ plug[c].phase \in {"charging", "asked"}
  /\ plug' = [plug EXCEPT ![c].phase = "ending"]
  /\ cstat' = [cstat EXCEPT ![c] = "finishing"]
  /\ Enter(p, [Idle EXCEPT !.kind = "rxStop", !.con = c, !.txn = plug[c].txn,
                           !.wh = plug[c].meter])
  /\ UNCHANGED <<rows, readings, online, hwFault, overdue, cmds, delivered,
                 linked, counters, bounds>>

\* Ended while offline: the StopTransaction is never delivered.
endOffline(c) ==
  /\ plug[c].phase = "charging" /\ ~linked[ChargerOf[c]]
  /\ plug' = [plug EXCEPT ![c] = Unplugged(@)]
  /\ UNCHANGED <<db, overdue, op, cmds, delivered, linked, counters, bounds>>
-----------------------------------------------------------------------------
(* StartTransaction *)

\* The CALLRESULT reaches the charge point if the link it was asked on is up.
\* A charge point told "Invalid" may give up; the simulator charges regardless.
ReplyStart(h, txn, accepted) ==
  IF h.con = NoConnector \/ plug[h.con].begin[h.sid] # "starting"
  THEN UNCHANGED <<plug, cstat>>
  ELSE \/ /\ plug' = [plug EXCEPT ![h.con].begin[h.sid] = "no", ![h.con].txn = txn,
                                  ![h.con].sid = h.sid, ![h.con].phase = "charging"]
          /\ cstat' = [cstat EXCEPT ![h.con] = "charging"]
       \/ /\ ~accepted
          /\ plug' = [plug EXCEPT ![h.con].begin[h.sid] = "no"]
          /\ cstat' = [cstat EXCEPT ![h.con] = "available"]

\* A CALLERROR, or no usable answer.
ReplyStartError(h) ==
  IF h.con = NoConnector \/ plug[h.con].begin[h.sid] # "starting"
  THEN UNCHANGED <<plug, cstat>>
  ELSE /\ plug' = [plug EXCEPT ![h.con].begin[h.sid] = "no"]
       /\ cstat' = [cstat EXCEPT ![h.con] = "available"]

\* Look the tag up; repeat the id of a confirmed session, refuse a session
\* that is no longer waiting, or allocate an id for the one that is.
onStartTransaction(p) ==
  LET h == op[p]
      r == rows[h.sid]
  IN
  /\ h.kind = "rxStart"
  /\ \/ /\ r.status = "active" /\ r.txn # NoTxn
        /\ ReplyStart(h, r.txn, TRUE)
        /\ Leave(p)
        /\ UNCHANGED nextTxn
     \/ /\ ~(r.status = "active" /\ r.txn # NoTxn)
        /\ r.status # "initiating" \/ ChargerOf[r.con] # h.charger
        /\ nextTxn' = allocateTransactionId(nextTxn)
        /\ ReplyStart(h, nextTxn', FALSE)
        /\ Leave(p)
     \/ /\ r.status = "initiating" /\ ChargerOf[r.con] = h.charger
        /\ nextTxn' = allocateTransactionId(nextTxn)
        /\ Enter(p, [h EXCEPT !.kind = "confirm", !.txn = nextTxn', !.docs[h.sid] = r])
        /\ UNCHANGED <<plug, cstat>>
  /\ UNCHANGED <<rows, readings, online, hwFault, overdue, cmds, delivered,
                 linked, seeded, bounds>>

\* The save; a taken transaction id is reseeded and retried once.
saveConfirmed(p) ==
  LET h == op[p]
      old == h.docs[h.sid]
      new == Confirmed(old, h.txn, h.wh)
  IN
  /\ h.kind \in {"confirm", "confirmAgain"}
  /\ Save(h.sid, old, new)
  /\ \/ /\ Admitted(h.sid, old, new)
        /\ ReplyStart(h, h.txn, TRUE)
        /\ Leave(p)
     \/ /\ ~Admitted(h.sid, old, new)
        /\ h.kind = "confirm" /\ ~TransactionIndexAdmits(h.sid, Saved(h.sid, old, new))
        /\ Goto(p, "reseed")
        /\ UNCHANGED <<plug, cstat>>
     \/ /\ ~Admitted(h.sid, old, new)
        /\ h.kind = "confirmAgain" \/ TransactionIndexAdmits(h.sid, Saved(h.sid, old, new))
        /\ ReplyStartError(h)
        /\ Leave(p)
  /\ UNCHANGED <<readings, online, hwFault, overdue, cmds, delivered, linked,
                 counters, bounds>>

reseedTransactionIds(p) ==
  /\ op[p].kind = "reseed"
  /\ \E highest \in highestTransactionId :
       nextTxn' = allocateTransactionId(seedTransactionId(highest))
  /\ Enter(p, [op[p] EXCEPT !.kind = "confirmAgain", !.txn = nextTxn'])
  /\ UNCHANGED <<db, net, overdue, seeded, bounds>>

-----------------------------------------------------------------------------
(* MeterValues: find, compare, store the reading, update the session *)

\* Every frame names its transaction, as the simulator's do.  The fallback from
\* a connector number to the registry's transaction, for a MeterValues or a
\* StopTransaction that carries no id (handlers.ts:513-525, 577-585), is left out.

PreviousWh(r) == IF r.last # Null THEN r.last ELSE IF r.start # Null THEN r.start ELSE 0

onMeterValues(p) ==
  LET h == op[p] IN
  /\ h.kind = "rxMeter"
  /\ \/ /\ \A s \in OpenWithTxn(h.txn) : h.wh <= PreviousWh(rows[s])
        /\ Leave(p)
     \/ \E s \in OpenWithTxn(h.txn) :
          /\ h.wh > PreviousWh(rows[s])
          /\ Enter(p, [h EXCEPT !.kind = "reading", !.sid = s, !.docs[s] = rows[s]])
  /\ UNCHANGED <<db, net, overdue, counters, bounds>>

\* A reading is identified by its timestamp, a repeated one by its value here.
createReading(p) ==
  LET h == op[p] IN
  /\ h.kind = "reading"
  /\ \/ /\ h.wh \in readings[h.sid]
        /\ Leave(p)
        /\ UNCHANGED readings
     \/ /\ h.wh \notin readings[h.sid]
        /\ readings' = [readings EXCEPT ![h.sid] = @ \cup {h.wh}]
        /\ Goto(p, "meter")
  /\ UNCHANGED <<rows, online, hwFault, cstat, overdue, net, counters, bounds>>

saveMeter(p) ==
  LET h == op[p] IN
  /\ h.kind = "meter"
  /\ Save(h.sid, h.docs[h.sid], Metered(h.docs[h.sid], h.wh))
  /\ Leave(p)
  /\ UNCHANGED <<readings, online, hwFault, cstat, overdue, net, counters, bounds>>

-----------------------------------------------------------------------------
(* StopTransaction *)

ReplyStop(h) ==
  IF h.con = NoConnector \/ plug[h.con].phase # "ending"
  THEN UNCHANGED <<plug, cstat>>
  ELSE /\ plug' = [plug EXCEPT ![h.con] = Unplugged(@)]
       /\ cstat' = [cstat EXCEPT ![h.con] = "available"]

onStopTransaction(p) ==
  LET h == op[p] IN
  /\ h.kind = "rxStop"
  /\ \/ /\ OpenWithTxn(h.txn) = {}
        /\ ReplyStop(h)
        /\ Leave(p)
     \/ \E s \in OpenWithTxn(h.txn) :
          /\ Enter(p, [h EXCEPT !.kind = "finish", !.sid = s, !.docs[s] = rows[s]])
          /\ UNCHANGED <<plug, cstat>>
  /\ UNCHANGED <<rows, readings, online, hwFault, overdue, cmds, delivered,
                 linked, counters, bounds>>

saveFinished(p) ==
  LET h == op[p] IN
  /\ h.kind = "finish"
  /\ Save(h.sid, h.docs[h.sid], Finished(h.docs[h.sid], h.wh))
  /\ ReplyStop(h)
  /\ Leave(p)
  /\ UNCHANGED <<readings, online, hwFault, overdue, cmds, delivered, linked,
                 counters, bounds>>
-----------------------------------------------------------------------------
(* Disconnects, faults and time *)

\* The rows a failure handler will end, read all at once.
failOpenSessions(p) ==
  LET h == op[p] IN
  /\ h.kind = "rxFail"
  /\ \/ /\ h.con # NoConnector
        /\ Enter(p, [h EXCEPT !.kind = "fail", !.docs = DocsOf(OpenOnConnector(h.con))])
     \/ /\ h.con = NoConnector
        /\ \E ch \in h.rest :
             Enter(p, [h EXCEPT !.kind = "fail", !.charger = ch, !.rest = @ \ {ch},
                                !.docs = DocsOf(OpenOnCharger(ch))])
  /\ UNCHANGED <<db, net, overdue, counters, bounds>>

\* One turn of the loop: the copy was read before the loop began.
failSessions(p, s) ==
  LET h == op[p] IN
  /\ h.kind = "fail" /\ s \in Loaded(h)
  /\ Save(s, h.docs[s], Failed(h.docs[s], h.why))
  /\ Enter(p, [h EXCEPT !.docs[s] = NoRow])
  /\ UNCHANGED <<readings, online, hwFault, cstat, overdue, net, counters, bounds>>

IN_FLIGHT_CONNECTOR_STATUSES == {"preparing", "charging", "finishing"}

\* After the loop: a charger-wide failure releases the plugs left mid-flight,
\* and the boot-time pass goes on to its next charger.
releaseConnectors(p) ==
  LET h == op[p] IN
  /\ h.kind = "fail" /\ Loaded(h) = {}
  /\ cstat' = [c \in Connectors |->
                IF ChargerOf[c] = h.charger /\ cstat[c] \in IN_FLIGHT_CONNECTOR_STATUSES
                THEN "unavailable" ELSE cstat[c]]
  /\ IF h.rest = {} THEN Leave(p) ELSE Goto(p, "rxFail")
  /\ UNCHANGED <<rows, readings, online, hwFault, overdue, net, counters, bounds>>

\* START_CONFIRMATION_TIMEOUT passes.
elapse(s) ==
  /\ rows[s].status = "initiating" /\ s \notin overdue
  /\ overdue' = overdue \cup {s}
  /\ UNCHANGED <<db, op, net, counters, bounds>>

\* Faulty variant: the query asks for sessions that already have an id.
Unconfirmed_withId == {s \in overdue : rows[s].status = "initiating" /\ rows[s].txn # NoTxn}
Unconfirmed == {s \in overdue : rows[s].status = "initiating"}

sweepUnconfirmedSessions ==
  /\ op[Sweeper].kind = "idle"
  /\ Unconfirmed # {}
  /\ Enter(Sweeper, [Idle EXCEPT !.kind = "sweep", !.why = "StartTimeout",
                                 !.docs = DocsOf(Unconfirmed)])
  /\ UNCHANGED <<db, net, overdue, counters, bounds>>

saveSwept(s) ==
  LET h == op[Sweeper] IN
  /\ h.kind = "sweep" /\ s \in Loaded(h)
  /\ Save(s, h.docs[s], MarkedFailed(h.docs[s], h.why))
  /\ IF Loaded(h) = {s} THEN Leave(Sweeper) ELSE Enter(Sweeper, [h EXCEPT !.docs[s] = NoRow])
  /\ UNCHANGED <<readings, online, hwFault, cstat, overdue, net, counters, bounds>>

\* What losing its link does to a charge point: unanswered calls are given up.
Dropped(pl) ==
  LET quiet == [pl EXCEPT !.begin = [s \in Sessions |->
                  IF pl.begin[s] = "lost" \/ (ResendStart /\ pl.begin[s] = "starting")
                  THEN "lost" ELSE "no"]]
  IN  IF pl.phase \in {"asked", "ending"} THEN Unplugged(quiet) ELSE quiet

AwaitingReply == {"rxStart", "confirm", "reseed", "confirmAgain", "rxStop", "finish"}

\* The answers of the handlers serving charger ch have nowhere to go.
Orphaned(ch) ==
  [q \in Procs |-> IF op[q].kind \in AwaitingReply /\ op[q].con # NoConnector
                      /\ ChargerOf[op[q].con] = ch
                   THEN [op[q] EXCEPT !.con = NoConnector] ELSE op[q]]

\* The gateway's close handler.
disconnect(p, ch) ==
  /\ Free(p) /\ linked[ch]
  /\ linked' = [linked EXCEPT ![ch] = FALSE]
  /\ online' = [online EXCEPT ![ch] = FALSE]
  /\ cmds' = {m \in cmds : ChargerOf[m.con] # ch}
  /\ plug' = [c \in Connectors |-> IF ChargerOf[c] = ch THEN Dropped(plug[c]) ELSE plug[c]]
  /\ op' = [Orphaned(ch) EXCEPT ![p] =
              [Idle EXCEPT !.kind = "rxFail", !.why = "ChargerDisconnected", !.rest = {ch}]]
  /\ UNCHANGED <<rows, readings, hwFault, cstat, overdue, delivered, counters, bounds>>

\* Upgrade, registration, BootNotification and the first StatusNotification.
connect(ch) ==
  /\ ~linked[ch]
  /\ linked' = [linked EXCEPT ![ch] = TRUE]
  /\ online' = [online EXCEPT ![ch] = TRUE]
  /\ cstat' = [c \in Connectors |-> IF ChargerOf[c] = ch THEN "available" ELSE cstat[c]]
  /\ UNCHANGED <<rows, readings, hwFault, overdue, op, cmds, plug, delivered,
                 counters, bounds>>

\* StatusNotification "Faulted" for one plug.
faultConnector(p, c) ==
  /\ Free(p) /\ linked[ChargerOf[c]]
  /\ faults < MaxFaults /\ faults' = faults + 1
  /\ cstat[c] # "faulted"
  /\ cstat' = [cstat EXCEPT ![c] = "faulted"]
  /\ plug' = [plug EXCEPT ![c] = Unplugged(@)]
  /\ Enter(p, [Idle EXCEPT !.kind = "rxFail", !.why = "HardwareFault", !.con = c])
  /\ UNCHANGED <<rows, readings, online, hwFault, overdue, cmds, delivered,
                 linked, counters, restarts>>

\* StatusNotification "Faulted" for connectorId 0: the charger as a whole.
faultChargePoint(p, ch) ==
  /\ Free(p) /\ linked[ch]
  /\ faults < MaxFaults /\ faults' = faults + 1
  /\ ~hwFault[ch]
  /\ hwFault' = [hwFault EXCEPT ![ch] = TRUE]
  /\ plug' = [c \in Connectors |-> IF ChargerOf[c] = ch THEN Unplugged(plug[c]) ELSE plug[c]]
  /\ Enter(p, [Idle EXCEPT !.kind = "rxFail", !.why = "HardwareFault", !.rest = {ch}])
  /\ UNCHANGED <<rows, readings, online, cstat, overdue, cmds, delivered,
                 linked, counters, restarts>>

clearFaults(ch) ==
  /\ linked[ch]
  /\ hwFault[ch] \/ \E c \in Connectors : ChargerOf[c] = ch /\ cstat[c] = "faulted"
  /\ hwFault' = [hwFault EXCEPT ![ch] = FALSE]
  /\ cstat' = [c \in Connectors |-> IF ChargerOf[c] = ch THEN "available" ELSE cstat[c]]
  /\ UNCHANGED <<rows, readings, online, overdue, op, net, counters, bounds>>

-----------------------------------------------------------------------------
(* A restart of the backend: the collections survive, handlers do not.     *)
(* reconcileOnlineStateAtBoot then fails the sessions of every charger     *)
(* still marked online; the transaction ids are seeded concurrently.       *)

restart(p) ==
  /\ p \in Slots
  /\ restarts < MaxRestarts /\ restarts' = restarts + 1
  /\ linked' = [ch \in Chargers |-> FALSE]
  /\ online' = [ch \in Chargers |-> FALSE]
  /\ cmds' = {}
  /\ plug' = [c \in Connectors |-> Dropped(plug[c])]
  /\ LET stale == {ch \in Chargers : online[ch]}
     IN  op' = [q \in Procs |->
                 IF q = p /\ stale # {}
                 THEN [Idle EXCEPT !.kind = "rxFail", !.why = "ChargerDisconnected",
                                   !.rest = stale]
                 ELSE Idle]
  /\ nextTxn' = 0
  /\ seeded' = FALSE
  /\ UNCHANGED <<rows, readings, hwFault, cstat, overdue, delivered, faults>>

seedAtBoot ==
  /\ ~seeded
  /\ \E highest \in highestTransactionId : nextTxn' = seedTransactionId(highest)
  /\ seeded' = TRUE
  /\ UNCHANGED <<db, net, overdue, op, bounds>>

-----------------------------------------------------------------------------
Init ==
  /\ rows = [s \in Sessions |-> NoRow]
  /\ readings = [s \in Sessions |-> {}]
  /\ overdue = {}
  /\ op = [p \in Procs |-> Idle]
  /\ cmds = {}
  /\ \E wh \in 0..MaxMeter :
       plug = [c \in Connectors |->
                [begin |-> [s \in Sessions |-> "no"], phase |-> "idle", txn |-> NoTxn,
                 sid |-> NoSession, base |-> 0, meter |-> wh]]
  /\ delivered = [s \in Sessions |-> 0]
  /\ linked = [ch \in Chargers |-> TRUE]
  /\ online = [ch \in Chargers |-> TRUE]
  /\ hwFault = [ch \in Chargers |-> FALSE]
  /\ cstat = [c \in Connectors |-> "available"]
  /\ nextTxn = 0
  /\ seeded = TRUE
  /\ faults = 0
  /\ restarts = 0

\* The next await of handler p completes.
HandlerStep(p) ==
  \/ createSession(p) \/ markFailed(p)
  \/ requestStop(p) \/ saveStopping(p) \/ saveStopOffline(p)
  \/ onStartTransaction(p) \/ saveConfirmed(p) \/ reseedTransactionIds(p)
  \/ onMeterValues(p) \/ createReading(p) \/ saveMeter(p)
  \/ onStopTransaction(p) \/ saveFinished(p)
  \/ failOpenSessions(p) \/ (\E s \in Sessions : failSessions(p, s))
  \/ releaseConnectors(p)
  \/ commandTimeout(p)

SweeperStep == sweepUnconfirmedSessions \/ \E s \in Sessions : saveSwept(s)

PersonStep(p) ==
  \/ \E d \in Drivers, c \in Connectors, s \in Sessions : startSession(p, d, c, s)
  \/ \E s \in Sessions : stopSession(p, s)

ChargerStep ==
  \/ \E m \in cmds : chargerRejects(m) \/ chargerAcceptsStart(m) \/ chargerAcceptsStop(m)
  \/ \E c \in Connectors, s \in Sessions : authorizeIdTag(c, s)
  \/ \E c \in Connectors : deliverEnergy(c) \/ endOffline(c)
  \/ \E ch \in Chargers : connect(ch) \/ clearFaults(ch)

ChargerCall(p) ==
  \/ \E c \in Connectors, s \in Sessions : sendStartTransaction(p, c, s)
  \/ \E c \in Connectors, wh \in 0..MaxMeter : sendMeterValues(p, c, wh)
  \/ \E c \in Connectors : sendStopTransaction(p, c) \/ faultConnector(p, c)
  \/ \E ch \in Chargers : disconnect(p, ch) \/ faultChargePoint(p, ch)

Next ==
  \/ \E p \in Slots : HandlerStep(p) \/ PersonStep(p) \/ ChargerCall(p) \/ restart(p)
  \/ SweeperStep \/ ChargerStep \/ seedAtBoot
  \/ \E s \in Sessions : elapse(s)

Spec == Init /\ [][Next]_vars

\* Node runs every promise to completion, the command timer fires, time passes
\* and the sweep's interval keeps ticking.  Nothing is assumed of people or of
\* charge points.
Fairness ==
  /\ \A p \in Slots : WF_vars(HandlerStep(p))
  /\ WF_vars(SweeperStep)
  /\ \A s \in Sessions : WF_vars(elapse(s))

FairSpec == Spec /\ Fairness

\* A charge point that answers its commands, stops when it was asked to and
\* reconnects.
ChargerFairness ==
  /\ WF_vars(\E m \in cmds : chargerRejects(m) \/ chargerAcceptsStart(m) \/ chargerAcceptsStop(m))
  /\ \A c \in Connectors :
       WF_vars(plug[c].phase = "asked" /\ \E p \in Slots : sendStopTransaction(p, c))
  /\ \A ch \in Chargers : WF_vars(connect(ch))

ResponsiveSpec == FairSpec /\ ChargerFairness
-----------------------------------------------------------------------------
(* Properties *)

Plug == [begin : [Sessions -> {"no", "preparing", "authorized", "starting", "lost"}],
         phase : {"idle", "charging", "asked", "ending"},
         txn : Nat, sid : Sessions \cup {NoSession}, base : 0..MaxMeter, meter : 0..MaxMeter]

Command == [type : {"start", "stop"}, slot : Procs, sid : Sessions, con : Connectors]

CONNECTOR_STATUSES == {"available", "occupied", "preparing", "charging", "finishing",
                       "faulted", "unavailable"}

\* Type correctness of the rows, of the copies handlers hold and of the wire.
TypeOK ==
  /\ rows \in [Sessions -> Row]
  /\ readings \in [Sessions -> SUBSET (0..MaxMeter)]
  /\ overdue \subseteq Sessions
  /\ op \in [Procs -> Handler]
  /\ cmds \subseteq Command
  /\ plug \in [Connectors -> Plug]
  /\ delivered \in [Sessions -> Nat]
  /\ linked \in [Chargers -> BOOLEAN]
  /\ online \in [Chargers -> BOOLEAN]
  /\ hwFault \in [Chargers -> BOOLEAN]
  /\ cstat \in [Connectors -> CONNECTOR_STATUSES]
  /\ nextTxn \in Nat /\ seeded \in BOOLEAN
  /\ faults \in 0..MaxFaults /\ restarts \in 0..MaxRestarts

SessionKinds == HandlerKinds \ {"idle", "rxMeter", "rxStop", "rxFail", "fail", "sweep"}
CopyKinds == SessionKinds \ {"create", "rxStart"}

\* What a handler in flight relies on: it works on a session, and a session it
\* holds a copy of is stored (rows are failed, never deleted).
HandlerInv(h) ==
  /\ h.kind \in SessionKinds => h.sid \in Sessions
  /\ h.kind = "create" => h.driver \in Drivers /\ h.con \in Connectors
  /\ h.kind \in CopyKinds => h.docs[h.sid].status # "none"
  /\ \A s \in Sessions :
       /\ h.docs[s].status # "none" => rows[s].status # "none"
       /\ h.docs[s].con = IF h.docs[s].status = "none" THEN NoConnector ELSE rows[s].con
       /\ h.docs[s].amount # Null => rows[s].amount # Null

\* A command someone still waits for belongs to one waiting handler.
CommandInv ==
  \A m \in cmds : m.slot \in Slots =>
    /\ op[m.slot].kind = IF m.type = "start" THEN "awaitStart" ELSE "awaitStop"
    /\ \A n \in cmds : n.slot = m.slot => n = m

\* The identity a request is about to create a row under is unused and its own.
FreshInv ==
  \A p \in Procs : op[p].kind = "create" =>
    /\ rows[op[p].sid].status = "none"
    /\ \A q \in Procs : op[q].kind = "create" /\ op[q].sid = op[p].sid => q = p

\* The strengthening of TypeOK and TerminalSessionsPriced that every step keeps.
SessionInv ==
  /\ TypeOK
  /\ \A p \in Procs : HandlerInv(op[p])
  /\ FreshInv
  /\ CommandInv
  /\ \A s \in Sessions :
       /\ rows[s].status # "none" => rows[s].con \in Connectors
       /\ rows[s].status = "none" => rows[s].amount = Null
       /\ IsTerminal(rows[s]) => rows[s].amount # Null

\* Two drivers who both pass startSession's checks, or a stale save that
\* reopens a finished session, never leave one connector with two open
\* sessions (chargingSession.model.ts, one_open_session_per_connector).
OneOpenSessionPerConnector ==
  \A s, t \in Sessions :
    s # t /\ IsOpen(rows[s]) /\ IsOpen(rows[t]) => rows[s].con # rows[t].con

\* Two taps racing past startSession's check, or a stale save, never leave one
\* driver with two open sessions (one_open_session_per_driver).
OneOpenSessionPerDriver ==
  \A s, t \in Sessions :
    s # t /\ IsOpen(rows[s]) /\ IsOpen(rows[t]) => rows[s].driver # rows[t].driver

\* However a session ends, and whichever handlers raced to end it, a terminal
\* row carries an amount, so settlement can collect it (computeAmount).
TerminalSessionsPriced ==
  \A s \in Sessions : IsTerminal(rows[s]) => rows[s].amount # Null

\* No interleaving of stale saves bills a driver for more energy than the
\* plug's meter counted for that session.
NeverOverbilled ==
  \A s \in Sessions :
    rows[s].amount # Null =>
      rows[s].amount <= calculateAmountPaise(delivered[s], PricePerKwh)

\* A session whose start was confirmed is stored under the id its charge point
\* charges with, so that its MeterValues and its StopTransaction find it, although
\* stale copies are saved over the row (onStartTransaction).  It concerns charge
\* points that do not repeat a StartTransaction.
ConfirmedIdStable ==
  \A c \in Connectors :
    plug[c].phase # "idle" /\ rows[plug[c].sid].status = "active"
      => rows[plug[c].sid].txn = plug[c].txn

\* The energy on a row is always the span of the two readings beside it,
\* although different handlers write the three fields.
EnergyMatchesMeter ==
  \A s \in Sessions : rows[s].energy = consumedWh(rows[s].start, rows[s].last)

\* A start the charge point never confirms does not hold the connector for
\* ever: every initiating session leaves that state (sweepUnconfirmedSessions).
UnconfirmedSessionsResolved ==
  \A s \in Sessions : rows[s].status = "initiating" ~> rows[s].status # "initiating"

\* Every request and every frame is answered, also when the charge point never
\* answers the command it was sent (commands.ts, RESPONSE_TIMEOUT_MS).
HandlersFinish ==
  \A p \in Slots : op[p].kind # "idle" ~> op[p].kind = "idle"

\* "Sessions never get stuck": a session waiting for its StopTransaction does
\* not wait for ever while its charge point answers and stops when asked.
StoppingResolved ==
  \A s \in Sessions : rows[s].status = "stopping" ~> rows[s].status # "stopping"

-----------------------------------------------------------------------------
(* Three claims of the code's comments that the code does not keep: TLC      *)
(* refutes each within seconds (README, section 4), so no run lists them.    *)

\* The id a plug is charging under never leads MeterValues or StopTransaction
\* to another driver's session (highestTransactionId: "so a restart does not
\* reuse one").
TransactionIdsNotReused ==
  \A c \in Connectors, s \in Sessions :
    plug[c].phase # "idle" /\ rows[s].txn = plug[c].txn => s = plug[c].sid

\* "Once priced, the number is final" (computeAmount).
AmountFinalOncePriced ==
  [][\A s \in Sessions : rows[s].amount # Null => rows'[s].amount = rows[s].amount]_vars

\* The monotonicity check "rejects ... out-of-order arrival": the last meter
\* value of a confirmed session never goes backwards (onMeterValues).
MeterNeverRegresses ==
  [][\A s \in Sessions : rows'[s].last >= rows[s].last]_vars
=============================================================================
