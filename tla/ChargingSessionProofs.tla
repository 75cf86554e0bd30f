------------------------ MODULE ChargingSessionProofs ------------------------
(***************************************************************************)
(* Proofs about ChargingSession, for every number of sessions, drivers,    *)
(* connectors, chargers and concurrent handlers.                           *)
(***************************************************************************)
EXTENDS ChargingSession, TLAPS

(* consumedWh of two readings of one meter is a reading of that meter. *)
LEMMA ConsumedInRange ==
  ASSUME NEW a \in Meters, NEW b \in Meters
  PROVE  consumedWh(a, b) \in 0..MaxMeter
  BY ConstantsAssumption DEF Meters, consumedWh, Null

(* Pricing never yields a negative amount. *)
LEMMA AmountIsNatural ==
  ASSUME NEW e \in Nat, NEW p \in Nat
  PROVE  calculateAmountPaise(e, p) \in Nat
<1>1. CASE e <= 0 \/ p <= 0
  BY <1>1 DEF calculateAmountPaise
<1>2. CASE ~(e <= 0 \/ p <= 0)
  <2>1. e * p \in Nat
    OBVIOUS
  <2>2. 2 * e * p + 1000 \in Nat
    BY <2>1
  <2>3. \A n \in Nat : n \div 2000 \in Nat
    OBVIOUS
  <2> QED BY <1>2, <2>2, <2>3 DEF calculateAmountPaise
<1> QED BY <1>1, <1>2

(* The pricing hook maps rows to rows, keeps everything but the price, and *)
(* leaves no terminal row unpriced.                                        *)
LEMMA HookPrices ==
  ASSUME NEW r \in Row
  PROVE  /\ computeAmount(r) \in Row
         /\ computeAmount(r).status = r.status
         /\ computeAmount(r).con = r.con
         /\ r.amount # Null => computeAmount(r).amount = r.amount
         /\ IsTerminal(r) => computeAmount(r).amount # Null
<1> DEFINE a == calculateAmountPaise(r.energy, PricePerKwh)
<1>1. r.energy \in Nat /\ PricePerKwh \in Nat
  BY ConstantsAssumption DEF Row
<1>2. a \in Nat
  BY <1>1, AmountIsNatural
<1> HIDE DEF a
<1>3. computeAmount(r) = IF IsTerminal(r) /\ r.amount = Null
                         THEN [r EXCEPT !.amount = a, !.paid = r.paid \/ a = 0] ELSE r
  BY DEF computeAmount, a
<1>4. a # Null
  BY <1>2 DEF Null
<1> QED BY <1>2, <1>3, <1>4 DEF Row

(* A save stores a row: the fields come from the stored row or the copy.   *)
(* It neither unprices a row nor moves it to another connector, and it     *)
(* leaves no terminal row unpriced.                                        *)
LEMMA SavedRow ==
  ASSUME rows \in [Sessions -> Row], NEW s \in Sessions,
         NEW old \in Row, NEW new \in Row,
         new.amount = old.amount, new.status # "none",
         rows[s].status # "none",
         old.amount # Null => rows[s].amount # Null,
         IsTerminal(rows[s]) => rows[s].amount # Null
  PROVE  LET r == Saved(s, old, new) IN
         /\ r \in Row
         /\ r.status # "none"
         /\ r.con = rows[s].con
         /\ r.driver = rows[s].driver
         /\ rows[s].amount # Null => r.amount # Null
         /\ IsTerminal(r) => r.amount # Null
<1> DEFINE n == computeAmount(new)
           c == rows[s]
<1>1. /\ n \in Row /\ n.status = new.status
      /\ new.amount # Null => n.amount = new.amount
      /\ IsTerminal(new) => n.amount # Null
  BY HookPrices
<1>2. c \in Row
  OBVIOUS
<1>3. Saved(s, old, new) = Merge(c, old, n)
  BY DEF Saved
<1> HIDE DEF n, c
<1>4. Merge(c, old, n) \in Row
  BY <1>1, <1>2 DEF Merge, Keep, Row
<1>5. /\ Merge(c, old, n).con = c.con
      /\ Merge(c, old, n).driver = c.driver
      /\ Merge(c, old, n).status = Keep(c.status, old.status, n.status)
      /\ Merge(c, old, n).amount = Keep(c.amount, old.amount, n.amount)
  BY DEF Merge
<1>6. c.amount # Null => Merge(c, old, n).amount # Null
  BY <1>1, <1>5 DEF Keep, c
<1>7. IsTerminal(Merge(c, old, n)) => Merge(c, old, n).amount # Null
  BY <1>1, <1>5 DEF Keep, IsTerminal, c
<1>8. Merge(c, old, n).status # "none"
  BY <1>1, <1>5 DEF Keep, c
<1> QED BY <1>3, <1>4, <1>5, <1>6, <1>7, <1>8 DEF c

-----------------------------------------------------------------------------
(* The parts of SessionInv, and what a step may do to the stored rows *)

StoreInv ==
  /\ rows \in [Sessions -> Row]
  /\ \A s \in Sessions :
       /\ rows[s].status # "none" => rows[s].con \in Connectors
       /\ rows[s].status = "none" => rows[s].amount = Null
       /\ IsTerminal(rows[s]) => rows[s].amount # Null

HandlersInv ==
  /\ op \in [Procs -> Handler]
  /\ \A p \in Procs : HandlerInv(op[p])

WireInv ==
  /\ readings \in [Sessions -> SUBSET (0..MaxMeter)]
  /\ overdue \subseteq Sessions
  /\ cmds \subseteq Command
  /\ plug \in [Connectors -> Plug]
  /\ delivered \in [Sessions -> Nat]
  /\ linked \in [Chargers -> BOOLEAN]
  /\ online \in [Chargers -> BOOLEAN]
  /\ hwFault \in [Chargers -> BOOLEAN]
  /\ cstat \in [Connectors -> CONNECTOR_STATUSES]
  /\ nextTxn \in Nat /\ seeded \in BOOLEAN
  /\ faults \in 0..MaxFaults /\ restarts \in 0..MaxRestarts

\* A row is never deleted, moved to another connector or unpriced.
RowsGrow ==
  \A s \in Sessions :
    /\ rows[s].status # "none" => rows'[s].status # "none" /\ rows'[s].con = rows[s].con
    /\ rows[s].amount # Null => rows'[s].amount # Null

\* No row is created.
NoneCreated == \A s \in Sessions : rows[s].status = "none" => rows'[s].status = "none"

(* SessionInv is the conjunction of these parts. *)
LEMMA SessionInvParts ==
  /\ SessionInv <=> StoreInv /\ HandlersInv /\ FreshInv /\ WireInv /\ CommandInv
  /\ SessionInv' <=> StoreInv' /\ HandlersInv' /\ FreshInv' /\ WireInv' /\ CommandInv'
BY DEF SessionInv, TypeOK, StoreInv, HandlersInv, WireInv

(* A step that does not touch the rows keeps what is said of them. *)
LEMMA RowsKept ==
  ASSUME StoreInv, rows' = rows
  PROVE  StoreInv' /\ RowsGrow /\ NoneCreated
BY DEF StoreInv, RowsGrow, NoneCreated, IsTerminal

(* What a handler relies on survives every other handler's save. *)
LEMMA HandlerInvKept ==
  ASSUME StoreInv, RowsGrow, NEW h \in Handler, HandlerInv(h)
  PROVE  HandlerInv(h)'
BY DEF HandlerInv, RowsGrow, Handler

(* A step that sets one handler keeps HandlersInv if the new one is sound. *)
LEMMA HandlerSet ==
  ASSUME StoreInv, HandlersInv, RowsGrow, NEW p \in Procs,
         op' = [op EXCEPT ![p] = op'[p]], op'[p] \in Handler, HandlerInv(op[p])'
  PROVE  HandlersInv'
<1>1. op' \in [Procs -> Handler]
  BY DEF HandlersInv
<1>2. ASSUME NEW q \in Procs PROVE HandlerInv(op[q])'
  <2>1. CASE q = p
    BY <2>1
  <2>2. CASE q # p
    <3>1. op'[q] = op[q] /\ op[q] \in Handler /\ HandlerInv(op[q])
      BY <2>2 DEF HandlersInv
    <3> QED BY <3>1, HandlerInvKept DEF HandlerInv
  <2> QED BY <2>1, <2>2
<1> QED BY <1>1, <1>2 DEF HandlersInv

(* A step that sets no handler keeps HandlersInv. *)
LEMMA HandlersKept ==
  ASSUME StoreInv, HandlersInv, RowsGrow, op' = op
  PROVE  HandlersInv'
<1>1. ASSUME NEW q \in Procs PROVE HandlerInv(op[q])'
  BY HandlerInvKept DEF HandlersInv, HandlerInv
<1> QED BY <1>1 DEF HandlersInv

(* The absent row is a row. *)
LEMMA NoRowIsRow == NoRow \in Row
BY ConstantsAssumption DEF NoRow, Row, Meters, Null, NoTxn, STOP_REASONS

(* An idle handler relies on nothing. *)
LEMMA IdleIsSound ==
  Idle \in Handler /\ HandlerInv(Idle) /\ HandlerInv(Idle)'
<1>2. Idle \in Handler
  BY NoRowIsRow, ConstantsAssumption DEF Idle, Handler, NoDocs, HandlerKinds, STOP_REASONS, NoTxn
<1>3. HandlerInv(Idle) /\ HandlerInv(Idle)'
  BY DEF HandlerInv, Idle, NoDocs, NoRow, SessionKinds, CopyKinds
<1> QED BY <1>2, <1>3

(* An identity stays reserved when no row is created and nobody reserves one. *)
LEMMA FreshKept ==
  ASSUME FreshInv, NoneCreated, HandlersInv,
         \A q \in Procs : op'[q].kind = "create" =>
                             op[q].kind = "create" /\ op'[q].sid = op[q].sid
  PROVE  FreshInv'
BY DEF FreshInv, NoneCreated, HandlersInv, HandlerInv, SessionKinds, HandlerKinds

(* Commands stay owned when a handler that awaits none of them moves on. *)
LEMMA CommandsKept ==
  ASSUME HandlersInv, CommandInv, cmds' \subseteq cmds, NEW p \in Procs,
         op' = [op EXCEPT ![p] = op'[p]],
         op[p].kind \notin {"awaitStart", "awaitStop"}
  PROVE  CommandInv'
<1> SUFFICES ASSUME NEW m \in cmds', m.slot \in Slots
             PROVE  /\ op'[m.slot].kind = IF m.type = "start" THEN "awaitStart" ELSE "awaitStop"
                    /\ \A n \in cmds' : n.slot = m.slot => n = m
  BY DEF CommandInv
<1>1. op[m.slot].kind = IF m.type = "start" THEN "awaitStart" ELSE "awaitStop"
  BY DEF CommandInv
<1>2. op'[m.slot] = op[m.slot]
  BY <1>1 DEF HandlersInv, Procs
<1> QED BY <1>1, <1>2 DEF CommandInv

-----------------------------------------------------------------------------
(* Saves *)

(* Every edit a handler makes to its copy yields a row of some status, with *)
(* the price untouched.                                                     *)
LEMMA CopyEdits ==
  ASSUME NEW r \in Row, NEW t \in Nat, NEW w \in 0..MaxMeter, NEW y \in STOP_REASONS
  PROVE  \A n \in {MarkedFailed(r, y), Stopping(r), Confirmed(r, t, w), Metered(r, w),
                   Finished(r, w), Failed(r, y)} :
           n \in Row /\ n.amount = r.amount /\ (r.status # "none" => n.status # "none")
<1>1. /\ consumedWh(r.start, w) \in 0..MaxMeter
      /\ consumedWh(r.start, r.last) \in 0..MaxMeter
  BY ConsumedInRange DEF Row, Meters
<1>2. w \in Meters
  BY DEF Meters
<1>3. /\ MarkedFailed(r, y) \in Row
      /\ MarkedFailed(r, y).amount = r.amount /\ MarkedFailed(r, y).status = "failed"
  BY DEF MarkedFailed, Row, SESSION_STATUSES
<1>4. /\ Stopping(r) \in Row
      /\ Stopping(r).amount = r.amount /\ Stopping(r).status = "stopping"
  BY DEF Stopping, Row, SESSION_STATUSES
<1>5. /\ Confirmed(r, t, w) \in Row
      /\ Confirmed(r, t, w).amount = r.amount /\ Confirmed(r, t, w).status = "active"
  BY <1>2 DEF Confirmed, Row, SESSION_STATUSES
<1>6. /\ Metered(r, w) \in Row
      /\ Metered(r, w).amount = r.amount /\ Metered(r, w).status = r.status
  BY <1>1, <1>2 DEF Metered, Row
<1>7. /\ Finished(r, w) \in Row
      /\ Finished(r, w).amount = r.amount /\ Finished(r, w).status = "completed"
  BY <1>1, <1>2 DEF Finished, Row, SESSION_STATUSES, STOP_REASONS
<1>8. /\ Failed(r, y) \in Row
      /\ Failed(r, y).amount = r.amount /\ Failed(r, y).status = "failed"
  BY <1>1 DEF Failed, Row, SESSION_STATUSES
<1> QED BY <1>3, <1>4, <1>5, <1>6, <1>7, <1>8

(* Saving an edited copy that some handler held keeps the store sound. *)
LEMMA SaveKeepsStore ==
  ASSUME StoreInv, NEW h \in Handler, HandlerInv(h), NEW s \in Sessions,
         h.docs[s].status # "none", NEW new \in Row,
         new.amount = h.docs[s].amount, new.status # "none",
         Save(s, h.docs[s], new)
  PROVE  StoreInv' /\ RowsGrow /\ NoneCreated
<1> DEFINE r == Saved(s, h.docs[s], new)
<1>1. h.docs[s] \in Row /\ rows \in [Sessions -> Row]
  BY DEF Handler, StoreInv
<1>2. /\ rows[s].status # "none"
      /\ h.docs[s].amount # Null => rows[s].amount # Null
      /\ IsTerminal(rows[s]) => rows[s].amount # Null
      /\ rows[s].con \in Connectors
  BY DEF HandlerInv, StoreInv
<1>3. /\ r \in Row /\ r.status # "none" /\ r.con = rows[s].con
      /\ rows[s].amount # Null => r.amount # Null
      /\ IsTerminal(r) => r.amount # Null
  BY <1>1, <1>2, SavedRow
<1> HIDE DEF r
<1>4. rows' = rows \/ rows' = [rows EXCEPT ![s] = r]
  BY DEF Save, r
<1>5. CASE rows' = rows
  BY <1>5, RowsKept
<1>6. CASE rows' = [rows EXCEPT ![s] = r]
  <2>1. rows' \in [Sessions -> Row]
    BY <1>1, <1>3, <1>6
  <2>2. ASSUME NEW u \in Sessions
        PROVE  /\ rows'[u].status # "none" => rows'[u].con \in Connectors
               /\ rows'[u].status = "none" => rows'[u].amount = Null
               /\ IsTerminal(rows'[u]) => rows'[u].amount # Null
    <3>1. CASE u = s
      BY <3>1, <1>1, <1>2, <1>3, <1>6
    <3>2. CASE u # s
      BY <3>2, <1>1, <1>6 DEF StoreInv
    <3> QED BY <3>1, <3>2
  <2>3. RowsGrow /\ NoneCreated
    BY <1>1, <1>2, <1>3, <1>6 DEF RowsGrow, NoneCreated
  <2> QED BY <2>1, <2>2, <2>3 DEF StoreInv, IsTerminal
<1> QED BY <1>4, <1>5, <1>6

(* The handlers that save one copy, leave, and touch nothing else but,     *)
(* perhaps, the plug and its connector's status.                           *)
LEMMA SaveAndLeave ==
  ASSUME SessionInv, NEW p \in Procs, op[p].kind \in CopyKinds,
         op[p].kind \notin {"awaitStart", "awaitStop"},
         NEW new \in Row, new.amount = op[p].docs[op[p].sid].amount, new.status # "none",
         Save(op[p].sid, op[p].docs[op[p].sid], new),
         Leave(p), cmds' = cmds, WireInv'
  PROVE  SessionInv'
<1> DEFINE h == op[p]
<1>1. h \in Handler /\ HandlerInv(h) /\ h.sid \in Sessions /\ h.docs[h.sid].status # "none"
  BY SessionInvParts DEF HandlersInv, HandlerInv, CopyKinds
<1>2. StoreInv' /\ RowsGrow /\ NoneCreated
  BY <1>1, SessionInvParts, SaveKeepsStore
<1> op' = [op EXCEPT ![p] = op'[p]] /\ op'[p] = Idle
  BY SessionInvParts DEF Leave, HandlersInv
<1> HandlerInv(op[p])'
  BY IdleIsSound DEF HandlerInv
<1>3. HandlersInv'
  BY <1>2, SessionInvParts, HandlerSet, IdleIsSound
<1>4. CommandInv'
  BY SessionInvParts, CommandsKept
<1>5. FreshInv'
  BY <1>2, SessionInvParts, FreshKept DEF Leave, Idle, HandlersInv
<1> QED BY <1>2, <1>3, <1>4, <1>5, SessionInvParts

(* A handler that awaits no command moves on and the rows stay as they are. *)
LEMMA MoveHandler ==
  ASSUME SessionInv, NEW p \in Procs, op[p].kind \notin {"awaitStart", "awaitStop"},
         op' = [op EXCEPT ![p] = op'[p]], op'[p] \in Handler, HandlerInv(op[p])',
         op'[p].kind # "create",
         rows' = rows, cmds' \subseteq cmds, WireInv'
  PROVE  SessionInv'
<1>1. StoreInv' /\ RowsGrow /\ NoneCreated
  BY SessionInvParts, RowsKept
<1>2. HandlersInv'
  BY <1>1, SessionInvParts, HandlerSet
<1>3. CommandInv'
  BY SessionInvParts, CommandsKept
<1>4. FreshInv'
  BY <1>1, SessionInvParts, FreshKept DEF HandlersInv
<1> QED BY <1>1, <1>2, <1>3, <1>4, SessionInvParts

(* ... or returns. *)
LEMMA LeaveHandler ==
  ASSUME SessionInv, NEW p \in Procs, op[p].kind \notin {"awaitStart", "awaitStop"},
         Leave(p), rows' = rows, cmds' = cmds, WireInv'
  PROVE  SessionInv'
<1>1. op' = [op EXCEPT ![p] = op'[p]] /\ op'[p] = Idle
  BY SessionInvParts DEF Leave, HandlersInv
<1>2. HandlerInv(op[p])' /\ op'[p].kind # "create"
  BY <1>1, IdleIsSound DEF HandlerInv, Idle
<1> QED BY <1>1, <1>2, MoveHandler, IdleIsSound

(* A step outside the backend's handlers. *)
LEMMA HandlersUntouched ==
  ASSUME SessionInv, op' = op, rows' = rows, cmds' = cmds, WireInv'
  PROVE  SessionInv'
<1>1. StoreInv' /\ RowsGrow /\ NoneCreated
  BY SessionInvParts, RowsKept
<1>2. HandlersInv'
  BY <1>1, SessionInvParts, HandlersKept
<1>3. CommandInv'
  BY SessionInvParts DEF CommandInv
<1>4. FreshInv'
  BY <1>1, SessionInvParts, FreshKept
<1> QED BY <1>1, <1>2, <1>3, <1>4, SessionInvParts

(* A handler's command is answered, or given up, and the handler moves on. *)
LEMMA CommandAnswered ==
  ASSUME SessionInv, NEW p \in Slots,
         op' = [op EXCEPT ![p] = op'[p]], op'[p] \in Handler, HandlerInv(op[p])',
         op'[p].kind # "create",
         \A m \in cmds' : m.slot \in Slots => m \in cmds /\ m.slot # p,
         rows' = rows, WireInv'
  PROVE  SessionInv'
<1>1. StoreInv' /\ RowsGrow /\ NoneCreated
  BY SessionInvParts, RowsKept
<1>2. HandlersInv'
  BY <1>1, SessionInvParts, HandlerSet DEF Procs
<1>3. CommandInv'
  <2> SUFFICES ASSUME NEW m \in cmds', m.slot \in Slots
               PROVE  /\ op'[m.slot].kind = IF m.type = "start" THEN "awaitStart" ELSE "awaitStop"
                      /\ \A n \in cmds' : n.slot = m.slot => n = m
    BY DEF CommandInv
  <2>1. op'[m.slot] = op[m.slot]
    BY SessionInvParts DEF HandlersInv, Procs
  <2> QED BY <2>1, SessionInvParts DEF CommandInv
<1>4. FreshInv'
  BY <1>1, SessionInvParts, FreshKept DEF HandlersInv
<1> QED BY <1>1, <1>2, <1>3, <1>4, SessionInvParts

-----------------------------------------------------------------------------
(* People *)

LEMMA StartSessionKeeps ==
  ASSUME SessionInv, NEW p \in Slots, NEW d \in Drivers, NEW c \in Connectors,
         NEW s \in Sessions, startSession(p, d, c, s)
  PROVE  SessionInv'
<1> DEFINE h == [Idle EXCEPT !.kind = "create", !.sid = s, !.driver = d, !.con = c]
<1>1. h \in Handler /\ h.kind = "create" /\ h.sid = s
  BY IdleIsSound DEF Handler, HandlerKinds
<1>3. /\ p \in Procs /\ op[p].kind = "idle"
      /\ rows[s].status = "none" /\ \A q \in Procs : op[q].sid # s
  BY DEF startSession, Free, Procs
<1>4. WireInv' /\ rows' = rows /\ cmds' = cmds
  BY SessionInvParts DEF startSession, WireInv, db, net, counters, bounds
<1>5. op' = [op EXCEPT ![p] = op'[p]] /\ op'[p] = h
  BY <1>3, SessionInvParts DEF startSession, Enter, HandlersInv
<1>2. HandlerInv(op[p])'
  BY <1>5 DEF HandlerInv, Idle, NoDocs, NoRow, SessionKinds, CopyKinds, HandlerKinds
<1> HIDE DEF h
<1>6. StoreInv' /\ RowsGrow /\ NoneCreated
  BY <1>4, SessionInvParts, RowsKept
<1>7. HandlersInv'
  BY <1>1, <1>2, <1>3, <1>5, <1>6, SessionInvParts, HandlerSet
<1>8. CommandInv'
  BY <1>3, <1>4, <1>5, SessionInvParts, CommandsKept
<1>9. FreshInv'
  BY <1>1, <1>3, <1>4, <1>5, SessionInvParts DEF FreshInv, HandlersInv
<1> QED BY <1>4, <1>6, <1>7, <1>8, <1>9, SessionInvParts

LEMMA StopSessionKeeps ==
  ASSUME SessionInv, NEW p \in Slots, NEW s \in Sessions, stopSession(p, s)
  PROVE  SessionInv'
<1> DEFINE k == IF rows[s].status = "initiating" THEN "markFailed" ELSE "stopLookup"
           h == [Idle EXCEPT !.kind = k, !.sid = s, !.why = "StartTimeout",
                             !.docs[s] = rows[s]]
<1>1. h \in Handler /\ h.kind # "create"
  BY IdleIsSound, SessionInvParts DEF Handler, HandlerKinds, STOP_REASONS, StoreInv
<1>2. WireInv' /\ rows' = rows /\ cmds' = cmds
  BY SessionInvParts DEF stopSession, WireInv, db, net, counters, bounds
<1>4. p \in Procs /\ op[p].kind = "idle"
  BY DEF stopSession, Free, Procs
<1>5. op' = [op EXCEPT ![p] = op'[p]] /\ op'[p] = h
  BY <1>4, SessionInvParts DEF stopSession, Enter, HandlersInv
<1>3. HandlerInv(op[p])'
  BY <1>2, <1>5, SessionInvParts
     DEF HandlerInv, Idle, NoDocs, NoRow, SessionKinds, CopyKinds, stopSession, StoreInv
<1> HIDE DEF h
<1> QED BY <1>1, <1>2, <1>3, <1>4, <1>5, MoveHandler

(* A row is reserved: the only step that creates one. *)
LEMMA CreateSessionKeeps ==
  ASSUME SessionInv, NEW p \in Slots, createSession(p)
  PROVE  SessionInv'
<1> DEFINE h == op[p]
           r == NewSession(h.driver, h.con)
           g == [h EXCEPT !.kind = "awaitStart", !.docs[h.sid] = r]
           m == [type |-> "start", slot |-> p, sid |-> h.sid, con |-> h.con]
<1>1. /\ p \in Procs /\ h \in Handler /\ HandlerInv(h)
      /\ h.kind = "create" /\ h.sid \in Sessions
      /\ h.driver \in Drivers /\ h.con \in Connectors
  BY SessionInvParts DEF createSession, HandlersInv, HandlerInv, Procs, SessionKinds, HandlerKinds
<1>2. /\ rows[h.sid].status = "none"
      /\ \A q \in Procs : op[q].kind = "create" /\ op[q].sid = h.sid => q = p
  BY <1>1, SessionInvParts DEF FreshInv
<1>3. CASE ~IndexesAdmit(h.sid, r)
  <2>1. Leave(p) /\ rows' = rows /\ cmds' = cmds
    BY <1>3 DEF createSession
  <2>2. WireInv'
    BY <2>1, SessionInvParts DEF createSession, WireInv, counters, bounds
  <2> QED BY <2>1, <2>2, <1>1, LeaveHandler
<1>4. CASE IndexesAdmit(h.sid, r)
  <2>1. /\ rows' = [rows EXCEPT ![h.sid] = r]
        /\ op' = [op EXCEPT ![p] = op'[p]] /\ op'[p] = g
        /\ cmds' = cmds \/ cmds' = cmds \cup {m}
    BY <1>1, <1>4, SessionInvParts DEF createSession, Enter, HandlersInv
  <2>2. /\ r \in Row /\ r.status = "initiating" /\ r.con = h.con /\ r.amount = Null
    BY <1>1, NoRowIsRow
       DEF NewSession, NoRow, Row, Meters, Null, NoTxn, STOP_REASONS, SESSION_STATUSES
  <2>3. m \in Command /\ m.slot = p /\ m.type = "start"
    BY <1>1 DEF Command
  <2>4. WireInv'
    BY <2>1, <2>3, SessionInvParts DEF createSession, WireInv, counters, bounds
  <2>5. /\ g \in Handler /\ g.kind = "awaitStart" /\ g.sid = h.sid
        /\ g.docs = [h.docs EXCEPT ![h.sid] = r]
    BY <1>1, <2>2 DEF Handler, HandlerKinds
  <2> HIDE DEF r, m, g
  <2>6. StoreInv' /\ rows'[h.sid] = r /\ \A s \in Sessions \ {h.sid} : rows'[s] = rows[s]
    BY <2>1, <2>2, <1>1, SessionInvParts DEF StoreInv, IsTerminal, TERMINAL
  <2>7. HandlersInv'
    <3>1. RowsGrow
      BY <1>1, <1>2, <2>6, SessionInvParts DEF RowsGrow, StoreInv
    <3>2. HandlerInv(op[p])'
      BY <1>1, <1>2, <2>1, <2>2, <2>5, <2>6 DEF HandlerInv, Handler
    <3> QED BY <1>1, <2>1, <2>5, <3>1, <3>2, SessionInvParts, HandlerSet
  <2>8. FreshInv'
    BY <1>1, <1>2, <2>1, <2>5, <2>6, SessionInvParts
       DEF FreshInv, HandlersInv, HandlerInv, SessionKinds, HandlerKinds
  <2>9. CommandInv'
    <3> SUFFICES ASSUME NEW x \in cmds', x.slot \in Slots
                 PROVE  /\ op'[x.slot].kind = IF x.type = "start" THEN "awaitStart" ELSE "awaitStop"
                        /\ \A n \in cmds' : n.slot = x.slot => n = x
      BY DEF CommandInv
    <3>1. \A n \in cmds : n.slot # p
      BY <1>1, SessionInvParts DEF CommandInv
    <3>2. CASE x \in cmds
      <4>1. op'[x.slot] = op[x.slot]
        BY <2>1, <3>1, <3>2, SessionInvParts DEF HandlersInv, Procs
      <4> QED BY <2>1, <2>3, <3>1, <3>2, <4>1, SessionInvParts DEF CommandInv
    <3>3. CASE x = m
      BY <2>1, <2>3, <2>5, <3>1, <3>3
    <3> QED BY <2>1, <3>2, <3>3
  <2> QED BY <2>4, <2>6, <2>7, <2>8, <2>9, SessionInvParts
<1> QED BY <1>3, <1>4

-----------------------------------------------------------------------------
(* Waiting for a command, and the saves that end a request *)

LEMMA CommandTimeoutKeeps ==
  ASSUME SessionInv, NEW p \in Slots, commandTimeout(p)
  PROVE  SessionInv'
<1> DEFINE h == op[p]
<1>1. p \in Procs /\ h \in Handler /\ HandlerInv(h)
  BY SessionInvParts DEF HandlersInv, Procs
<1>2. rows' = rows /\ cmds' = Abandoned(p)
  BY DEF commandTimeout, db
<1>3. WireInv'
  <2>1. cmds' \subseteq Command
    BY <1>2, SessionInvParts DEF Abandoned, WireInv, Command, Procs
  <2> QED BY <2>1, SessionInvParts DEF commandTimeout, WireInv, db, counters, bounds
<1>4. \A m \in cmds' : m.slot \in Slots => m \in cmds /\ m.slot # p
  BY <1>2, SessionInvParts, ConstantsAssumption DEF Abandoned, WireInv, Command
<1>5. CASE h.kind = "awaitStart"
  <2>1. /\ op' = [op EXCEPT ![p] = op'[p]]
        /\ op'[p] = [h EXCEPT !.kind = "markFailed", !.why = "StartTimeout"]
    BY <1>1, <1>5, SessionInvParts DEF commandTimeout, Enter, HandlersInv
  <2>2. op'[p] \in Handler /\ op'[p].kind # "create"
    BY <1>1, <2>1 DEF Handler, HandlerKinds, STOP_REASONS
  <2>3. HandlerInv(op[p])'
    BY <1>1, <1>2, <1>5, <2>1 DEF HandlerInv, Handler, SessionKinds, CopyKinds, HandlerKinds
  <2> QED BY <1>2, <1>3, <1>4, <2>1, <2>2, <2>3, CommandAnswered
<1>6. CASE h.kind = "awaitStop"
  <2>1. op' = [op EXCEPT ![p] = op'[p]] /\ op'[p] = Idle
    BY <1>1, <1>6, SessionInvParts DEF commandTimeout, Leave, HandlersInv
  <2>2. HandlerInv(op[p])' /\ op'[p].kind # "create"
    BY <2>1, IdleIsSound DEF HandlerInv, Idle
  <2> QED BY <1>2, <1>3, <1>4, <2>1, <2>2, IdleIsSound, CommandAnswered
<1> QED BY <1>5, <1>6 DEF commandTimeout

(* markFailed, saveStopping, saveStopOffline and saveMeter: one save each. *)
LEMMA SimpleSavesKeep ==
  ASSUME SessionInv, NEW p \in Slots,
         markFailed(p) \/ saveStopping(p) \/ saveStopOffline(p) \/ saveMeter(p)
  PROVE  SessionInv'
<1> DEFINE h == op[p]
           d == h.docs[h.sid]
<1>1. /\ p \in Procs /\ h \in Handler /\ HandlerInv(h)
      /\ h.kind \in {"markFailed", "stopping", "stopOffline", "meter"}
  BY SessionInvParts
     DEF HandlersInv, Procs, markFailed, saveStopping, saveStopOffline, saveMeter
<1>2. h.kind \in CopyKinds /\ h.kind \notin {"awaitStart", "awaitStop"}
  BY <1>1 DEF CopyKinds, SessionKinds, HandlerKinds
<1>3. d \in Row /\ d.status # "none" /\ h.why \in STOP_REASONS /\ h.wh \in 0..MaxMeter
  BY <1>1, <1>2 DEF HandlerInv, Handler, CopyKinds
<1>4. cmds' = cmds /\ Leave(p) /\ WireInv'
  BY SessionInvParts DEF markFailed, saveStopping, saveStopOffline, saveMeter,
                         WireInv, net, counters, bounds
<1>5. PICK new : /\ Save(h.sid, d, new)
                 /\ new \in {MarkedFailed(d, h.why), Stopping(d), Metered(d, h.wh),
                             Failed(d, "ChargerDisconnected")}
  BY DEF markFailed, saveStopping, saveStopOffline, saveMeter
<1>6. "ChargerDisconnected" \in STOP_REASONS /\ 0 \in Nat
  BY DEF STOP_REASONS
<1> HIDE DEF d, h
<1>7. new \in Row /\ new.amount = d.amount /\ new.status # "none"
  <2>1. \A n \in {MarkedFailed(d, h.why), Stopping(d), Metered(d, h.wh)} :
          n \in Row /\ n.amount = d.amount /\ n.status # "none"
    BY <1>3, <1>6, CopyEdits
  <2>2. LET n == Failed(d, "ChargerDisconnected")
        IN  n \in Row /\ n.amount = d.amount /\ n.status # "none"
    BY <1>3, <1>6, CopyEdits
  <2> QED BY <1>5, <2>1, <2>2
<1> QED BY <1>1, <1>2, <1>4, <1>5, <1>7, SaveAndLeave DEF d, h

LEMMA RequestStopKeeps ==
  ASSUME SessionInv, NEW p \in Slots, requestStop(p)
  PROVE  SessionInv'
<1> DEFINE h == op[p]
           c == h.docs[h.sid].con
           m == [type |-> "stop", slot |-> p, sid |-> h.sid, con |-> c]
<1>1. /\ p \in Procs /\ h \in Handler /\ HandlerInv(h) /\ h.kind = "stopLookup"
      /\ h.sid \in Sessions /\ h.docs[h.sid].status # "none"
  BY SessionInvParts
     DEF requestStop, HandlersInv, HandlerInv, Procs, SessionKinds, CopyKinds, HandlerKinds
<1>2. c \in Connectors
  BY <1>1, SessionInvParts DEF HandlerInv, StoreInv
<1>3. rows' = rows
  BY DEF requestStop, db
<1>4. ASSUME NEW k \in {"stopOffline", "awaitStop"}, Goto(p, k)
      PROVE  /\ op' = [op EXCEPT ![p] = op'[p]] /\ op'[p] \in Handler
             /\ op'[p].kind = k /\ HandlerInv(op[p])'
  <2>1. op' = [op EXCEPT ![p] = op'[p]] /\ op'[p] = [h EXCEPT !.kind = k]
    BY <1>1, <1>4, SessionInvParts DEF Goto, HandlersInv
  <2>2. op'[p] \in Handler /\ op'[p].kind = k
    BY <1>1, <2>1 DEF Handler, HandlerKinds
  <2>3. HandlerInv(op[p])'
    BY <1>1, <1>3, <2>1 DEF HandlerInv, Handler
  <2> QED BY <2>1, <2>2, <2>3
<1>5. CASE cmds' = cmds
  <2>1. WireInv'
    BY <1>5, SessionInvParts DEF requestStop, WireInv, db, counters, bounds
  <2>2. CASE Leave(p)
    BY <1>1, <1>3, <1>5, <2>1, <2>2, LeaveHandler
  <2>3. CASE Goto(p, "stopOffline")
    BY <1>1, <1>3, <1>4, <1>5, <2>1, <2>3, MoveHandler
  <2>4. CASE Goto(p, "awaitStop") /\ cmds' = cmds \cup {m}
    <3>1. m.slot = p /\ m \in cmds
      BY <1>5, <2>4
    <3> QED BY <3>1, <1>1, SessionInvParts DEF CommandInv
  <2> QED BY <2>2, <2>3, <2>4 DEF requestStop
<1>6. CASE Goto(p, "awaitStop") /\ cmds' = cmds \cup {m}
  <2>1. m \in Command /\ m.slot = p /\ m.type = "stop"
    BY <1>1, <1>2 DEF Command
  <2> HIDE DEF m
  <2>2. WireInv'
    BY <1>6, <2>1, SessionInvParts DEF requestStop, WireInv, db, counters, bounds
  <2>3. StoreInv' /\ RowsGrow /\ NoneCreated
    BY <1>3, SessionInvParts, RowsKept
  <2>4. HandlersInv'
    BY <1>1, <1>4, <1>6, <2>3, SessionInvParts, HandlerSet
  <2>5. FreshInv'
    BY <1>1, <1>4, <1>6, <2>3, SessionInvParts, FreshKept DEF HandlersInv
  <2>6. CommandInv'
    <3> SUFFICES ASSUME NEW x \in cmds', x.slot \in Slots
                 PROVE  /\ op'[x.slot].kind = IF x.type = "start" THEN "awaitStart" ELSE "awaitStop"
                        /\ \A n \in cmds' : n.slot = x.slot => n = x
      BY DEF CommandInv
    <3>1. \A n \in cmds : n.slot # p
      BY <1>1, SessionInvParts DEF CommandInv
    <3>2. CASE x \in cmds
      <4>1. op'[x.slot] = op[x.slot]
        BY <1>4, <1>6, <3>1, <3>2, SessionInvParts DEF HandlersInv, Procs
      <4> QED BY <1>6, <2>1, <3>1, <3>2, <4>1, SessionInvParts DEF CommandInv
    <3>3. CASE x = m
      BY <1>4, <1>6, <2>1, <3>1, <3>3
    <3> QED BY <1>6, <3>2, <3>3
  <2> QED BY <2>2, <2>3, <2>4, <2>5, <2>6, SessionInvParts
<1> QED BY <1>5, <1>6 DEF requestStop

-----------------------------------------------------------------------------
(* The charge point *)

(* A plug that loses its link is still a plug. *)
LEMMA DroppedTyped ==
  ASSUME NEW pl \in Plug
  PROVE  Dropped(pl) \in Plug
<1> DEFINE quiet == [pl EXCEPT !.begin = [u \in Sessions |->
              IF pl.begin[u] = "lost" \/ (ResendStart /\ pl.begin[u] = "starting")
              THEN "lost" ELSE "no"]]
<1>1. quiet \in Plug
  BY DEF Plug
<1>2. Dropped(pl) = IF pl.phase \in {"asked", "ending"} THEN Unplugged(quiet) ELSE quiet
  BY DEF Dropped
<1>3. \A x \in Plug : Unplugged(x) \in Plug
  BY DEF Unplugged, Plug, NoTxn
<1> HIDE DEF quiet
<1> QED BY <1>1, <1>2, <1>3

(* A step that edits one plug leaves the others alone. *)
LEMMA PlugSet ==
  ASSUME WireInv, NEW c \in Connectors, NEW x \in Plug, plug' = [plug EXCEPT ![c] = x]
  PROVE  plug' \in [Connectors -> Plug]
BY DEF WireInv

(* Its answers to commands. *)
LEMMA ChargerAnswersKeep ==
  ASSUME SessionInv, NEW m \in cmds,
         chargerRejects(m) \/ chargerAcceptsStart(m) \/ chargerAcceptsStop(m)
  PROVE  SessionInv'
<1> DEFINE q == m.slot
           h == op[q]
<1>1. m \in Command
  BY SessionInvParts DEF WireInv
<1>2. rows' = rows /\ cmds' = cmds \ {m}
  BY DEF chargerRejects, chargerAcceptsStart, chargerAcceptsStop, Answer, db
<1>3. WireInv'
  <2>1. plug' \in [Connectors -> Plug]
    <3> DEFINE c == m.con
               pl == plug[c]
    <3>1. WireInv /\ c \in Connectors /\ pl \in Plug /\ m.sid \in Sessions
      BY <1>1, SessionInvParts DEF WireInv, Command
    <3>2. CASE plug' = plug
      BY <3>1, <3>2 DEF WireInv
    <3>3. CASE chargerAcceptsStart(m)
      <4>1. plug' = [plug EXCEPT ![c] = [pl EXCEPT !.begin[m.sid] = "preparing"]]
        BY <3>3 DEF chargerAcceptsStart
      <4>2. [pl EXCEPT !.begin[m.sid] = "preparing"] \in Plug
        BY <3>1 DEF Plug
      <4> QED BY <3>1, <4>1, <4>2, PlugSet
    <3>4. CASE chargerAcceptsStop(m)
      <4> DEFINE f == IF pl.phase = "charging" THEN "asked" ELSE pl.phase
      <4>1. plug' = [plug EXCEPT ![c] = [pl EXCEPT !.phase = f]]
        BY <3>4 DEF chargerAcceptsStop
      <4>2. [pl EXCEPT !.phase = f] \in Plug
        BY <3>1 DEF Plug
      <4> QED BY <3>1, <4>1, <4>2, PlugSet
    <3> QED BY <3>2, <3>3, <3>4 DEF chargerRejects
  <2>2. cstat' \in [Connectors -> CONNECTOR_STATUSES]
    BY <1>1, SessionInvParts
       DEF chargerRejects, chargerAcceptsStart, chargerAcceptsStop, WireInv, Command,
           CONNECTOR_STATUSES, db
  <2> QED BY <1>2, <2>1, <2>2, SessionInvParts
             DEF chargerRejects, chargerAcceptsStart, chargerAcceptsStop,
                 WireInv, db, counters, bounds
<1>4. CASE m.slot \notin Slots
  <2>1. op' = op
    BY <1>4 DEF chargerRejects, chargerAcceptsStart, chargerAcceptsStop, Answer
  <2>2. StoreInv' /\ RowsGrow /\ NoneCreated
    BY <1>2, SessionInvParts, RowsKept
  <2>3. HandlersInv' /\ FreshInv'
    BY <2>1, <2>2, SessionInvParts, HandlersKept, FreshKept
  <2>4. CommandInv'
    BY <1>2, <2>1, SessionInvParts DEF CommandInv
  <2> QED BY <1>3, <2>2, <2>3, <2>4, SessionInvParts
<1>5. CASE m.slot \in Slots
  <2>1. /\ q \in Procs /\ h \in Handler /\ HandlerInv(h)
        /\ h.kind = IF m.type = "start" THEN "awaitStart" ELSE "awaitStop"
    BY <1>5, SessionInvParts DEF HandlersInv, CommandInv, Procs
  <2>2. h.sid \in Sessions /\ h.docs[h.sid].status # "none"
    BY <2>1 DEF HandlerInv, SessionKinds, CopyKinds, HandlerKinds
  <2>3. /\ op' = [op EXCEPT ![q] = op'[q]]
        /\ op'[q] \in {Idle, [h EXCEPT !.kind = "markFailed", !.why = "Rejected"],
                       [h EXCEPT !.kind = "stopping"]}
    BY <1>5, <2>1, SessionInvParts
       DEF chargerRejects, chargerAcceptsStart, chargerAcceptsStop, Answer, HandlersInv
  <2>4. op'[q] \in Handler /\ HandlerInv(op[q])' /\ op'[q].kind # "create"
    <3>1. CASE op'[q] = Idle
      BY <3>1, IdleIsSound DEF HandlerInv, Idle
    <3>2. CASE op'[q] = [h EXCEPT !.kind = "markFailed", !.why = "Rejected"]
      <4>1. op'[q] \in Handler /\ op'[q].kind # "create"
        BY <2>1, <3>2 DEF Handler, HandlerKinds, STOP_REASONS
      <4>2. HandlerInv(op[q])'
        BY <1>2, <2>1, <2>2, <3>2 DEF HandlerInv, Handler
      <4> QED BY <4>1, <4>2
    <3>3. CASE op'[q] = [h EXCEPT !.kind = "stopping"]
      <4>1. op'[q] \in Handler /\ op'[q].kind # "create"
        BY <2>1, <3>3 DEF Handler, HandlerKinds
      <4>2. HandlerInv(op[q])'
        BY <1>2, <2>1, <2>2, <3>3 DEF HandlerInv, Handler
      <4> QED BY <4>1, <4>2
    <3> QED BY <2>3, <3>1, <3>2, <3>3
  <2>5. \A n \in cmds' : n.slot \in Slots => n \in cmds /\ n.slot # q
    BY <1>2, <1>5, SessionInvParts DEF CommandInv
  <2> QED BY <1>2, <1>3, <1>5, <2>3, <2>4, <2>5, CommandAnswered
<1> QED BY <1>4, <1>5

(* The steps in which it sends nothing. *)
LEMMA ChargerLocalStepsKeep ==
  ASSUME SessionInv,
         \/ \E c \in Connectors, s \in Sessions : authorizeIdTag(c, s)
         \/ \E c \in Connectors : deliverEnergy(c) \/ endOffline(c)
         \/ \E ch \in Chargers : connect(ch) \/ clearFaults(ch)
  PROVE  SessionInv'
<1>1. ASSUME NEW c \in Connectors, NEW s \in Sessions, authorizeIdTag(c, s)
      PROVE  SessionInv'
  <2>1. PICK b \in {"no", "authorized"} :
          plug' = [plug EXCEPT ![c] = [plug[c] EXCEPT !.begin[s] = b]]
    BY <1>1 DEF authorizeIdTag
  <2>2. WireInv /\ plug[c] \in Plug
    BY SessionInvParts DEF WireInv
  <2>3. [plug[c] EXCEPT !.begin[s] = b] \in Plug
    BY <2>2 DEF Plug
  <2>4. plug' \in [Connectors -> Plug]
    BY <2>1, <2>2, <2>3, PlugSet
  <2>5. WireInv' /\ rows' = rows /\ op' = op /\ cmds' = cmds
    BY <1>1, <2>2, <2>4 DEF authorizeIdTag, WireInv, CONNECTOR_STATUSES, counters, bounds
  <2> QED BY <2>5, HandlersUntouched
<1>2. ASSUME NEW c \in Connectors, deliverEnergy(c)
      PROVE  SessionInv'
  <2>1. plug' \in [Connectors -> Plug]
    <3> DEFINE w == plug[c].meter + 1
    <3>1. WireInv /\ plug[c] \in Plug
      BY SessionInvParts DEF WireInv
    <3>2. w \in 0..MaxMeter
      BY <1>2, <3>1, ConstantsAssumption DEF deliverEnergy, Plug
    <3>3. plug' = [plug EXCEPT ![c] = [plug[c] EXCEPT !.meter = w]]
      BY <1>2 DEF deliverEnergy
    <3> HIDE DEF w
    <3>4. [plug[c] EXCEPT !.meter = w] \in Plug
      BY <3>1, <3>2 DEF Plug
    <3> QED BY <3>1, <3>3, <3>4, PlugSet
  <2>2. delivered' \in [Sessions -> Nat]
    BY <1>2, SessionInvParts DEF deliverEnergy, WireInv
  <2>3. WireInv' /\ rows' = rows /\ op' = op /\ cmds' = cmds
    BY <1>2, <2>1, <2>2, SessionInvParts DEF deliverEnergy, WireInv, db, counters, bounds
  <2> QED BY <2>3, HandlersUntouched
<1>3. ASSUME NEW c \in Connectors, endOffline(c)
      PROVE  SessionInv'
  <2>1. WireInv' /\ rows' = rows /\ op' = op /\ cmds' = cmds
    BY <1>3, SessionInvParts
       DEF endOffline, Unplugged, WireInv, Plug, NoTxn, db, counters, bounds
  <2> QED BY <2>1, HandlersUntouched
<1>4. ASSUME NEW ch \in Chargers, connect(ch) \/ clearFaults(ch)
      PROVE  SessionInv'
  <2>1. cstat' \in [Connectors -> CONNECTOR_STATUSES]
    BY <1>4, SessionInvParts DEF connect, clearFaults, WireInv, CONNECTOR_STATUSES
  <2>2. /\ linked' \in [Chargers -> BOOLEAN]
        /\ online' \in [Chargers -> BOOLEAN]
        /\ hwFault' \in [Chargers -> BOOLEAN]
    BY <1>4, SessionInvParts DEF connect, clearFaults, WireInv, net
  <2>3. WireInv' /\ rows' = rows /\ op' = op /\ cmds' = cmds
    BY <1>4, <2>1, <2>2, SessionInvParts
       DEF connect, clearFaults, WireInv, net, counters, bounds
  <2> QED BY <2>3, HandlersUntouched
<1> QED BY <1>1, <1>2, <1>3, <1>4

-----------------------------------------------------------------------------
(* Frames arriving from the charge point *)

(* A frame starts a handler that holds no copy yet. *)
LEMMA CallEntered ==
  ASSUME SessionInv, NEW p \in Slots, Free(p), NEW h \in Handler, h.docs = NoDocs,
         h.kind \in {"rxStart", "rxMeter", "rxStop", "rxFail"},
         h.kind = "rxStart" => h.sid \in Sessions,
         Enter(p, h), rows' = rows, cmds' = cmds, WireInv'
  PROVE  SessionInv'
<1>1. p \in Procs /\ op[p].kind = "idle"
  BY DEF Free, Procs
<1>2. op' = [op EXCEPT ![p] = op'[p]] /\ op'[p] = h
  BY <1>1, SessionInvParts DEF Enter, HandlersInv
<1>3. HandlerInv(op[p])' /\ op'[p].kind # "create"
  BY <1>2 DEF HandlerInv, NoDocs, NoRow, SessionKinds, CopyKinds, HandlerKinds
<1> QED BY <1>1, <1>2, <1>3, MoveHandler

LEMMA SendStartTransactionKeeps ==
  ASSUME SessionInv, NEW p \in Slots, NEW c \in Connectors, NEW s \in Sessions,
         sendStartTransaction(p, c, s)
  PROVE  SessionInv'
<1> DEFINE pl == plug[c]
           h == [Idle EXCEPT !.kind = "rxStart", !.sid = s, !.con = c,
                             !.charger = ChargerOf[c], !.wh = plug'[c].base]
<1>1. WireInv /\ pl \in Plug /\ pl.meter \in 0..MaxMeter /\ 0 \in 0..MaxMeter
  BY SessionInvParts, ConstantsAssumption DEF WireInv, Plug
<1>2. plug' \in [Connectors -> Plug]
  <2>1. CASE \E wh \in {0, pl.meter} :
               plug' = [plug EXCEPT ![c].begin[s] = "starting", ![c].base = wh, ![c].meter = wh]
    <3>1. PICK wh \in {0, pl.meter} :
            plug' = [plug EXCEPT ![c] = [pl EXCEPT !.begin[s] = "starting", !.base = wh, !.meter = wh]]
      BY <2>1
    <3>2. [pl EXCEPT !.begin[s] = "starting", !.base = wh, !.meter = wh] \in Plug
      BY <1>1 DEF Plug
    <3> QED BY <1>1, <3>1, <3>2, PlugSet
  <2>2. CASE plug' = [plug EXCEPT ![c].begin[s] = "starting"]
    <3>1. plug' = [plug EXCEPT ![c] = [pl EXCEPT !.begin[s] = "starting"]]
      BY <2>2
    <3>2. [pl EXCEPT !.begin[s] = "starting"] \in Plug
      BY <1>1 DEF Plug
    <3> QED BY <1>1, <3>1, <3>2, PlugSet
  <2> QED BY <2>1, <2>2 DEF sendStartTransaction
<1>3. h \in Handler /\ h.docs = NoDocs /\ h.kind = "rxStart" /\ h.sid = s
  <2>1. plug'[c].base \in 0..MaxMeter /\ ChargerOf[c] \in Chargers
    BY <1>2, ConstantsAssumption DEF Plug
  <2> HIDE DEF pl
  <2> QED BY <2>1, IdleIsSound DEF Handler, Idle, HandlerKinds
<1>4. rows' = rows /\ cmds' = cmds /\ Free(p) /\ Enter(p, h)
  BY DEF sendStartTransaction, db
<1>5. WireInv'
  BY <1>1, <1>2 DEF sendStartTransaction, WireInv, db, counters, bounds
<1> HIDE DEF h
<1> QED BY <1>3, <1>4, <1>5, CallEntered

LEMMA SendMeterValuesKeeps ==
  ASSUME SessionInv, NEW p \in Slots, NEW c \in Connectors, NEW wh \in 0..MaxMeter,
         sendMeterValues(p, c, wh)
  PROVE  SessionInv'
<1> DEFINE h == [Idle EXCEPT !.kind = "rxMeter", !.txn = plug[c].txn, !.wh = wh]
<1>1. plug[c].txn \in Nat
  BY SessionInvParts DEF WireInv, Plug
<1>2. h \in Handler /\ h.docs = NoDocs /\ h.kind = "rxMeter"
  BY <1>1, IdleIsSound DEF Handler, Idle, HandlerKinds
<1>3. rows' = rows /\ cmds' = cmds /\ Free(p) /\ Enter(p, h)
  BY DEF sendMeterValues, db, net
<1>4. WireInv'
  BY SessionInvParts DEF sendMeterValues, WireInv, db, net, counters, bounds
<1> HIDE DEF h
<1> QED BY <1>2, <1>3, <1>4, CallEntered

LEMMA SendStopTransactionKeeps ==
  ASSUME SessionInv, NEW p \in Slots, NEW c \in Connectors, sendStopTransaction(p, c)
  PROVE  SessionInv'
<1> DEFINE h == [Idle EXCEPT !.kind = "rxStop", !.con = c, !.txn = plug[c].txn,
                             !.wh = plug[c].meter]
<1>1. WireInv /\ plug[c] \in Plug /\ plug[c].txn \in Nat /\ plug[c].meter \in 0..MaxMeter
  BY SessionInvParts DEF WireInv, Plug
<1>2. h \in Handler /\ h.docs = NoDocs /\ h.kind = "rxStop"
  BY <1>1, IdleIsSound DEF Handler, Idle, HandlerKinds
<1>3. rows' = rows /\ cmds' = cmds /\ Free(p) /\ Enter(p, h)
  BY DEF sendStopTransaction, db, net
<1>4. plug' \in [Connectors -> Plug]
  <2>1. plug' = [plug EXCEPT ![c] = [plug[c] EXCEPT !.phase = "ending"]]
    BY DEF sendStopTransaction
  <2>2. [plug[c] EXCEPT !.phase = "ending"] \in Plug
    BY <1>1 DEF Plug
  <2> QED BY <1>1, <2>1, <2>2, PlugSet
<1>5. WireInv'
  BY <1>1, <1>4 DEF sendStopTransaction, WireInv, CONNECTOR_STATUSES, counters, bounds
<1> HIDE DEF h
<1> QED BY <1>2, <1>3, <1>5, CallEntered

(* StatusNotification "Faulted", for a plug or for the charger. *)
LEMMA FaultsKeep ==
  ASSUME SessionInv, NEW p \in Slots,
         \/ \E c \in Connectors : faultConnector(p, c)
         \/ \E ch \in Chargers : faultChargePoint(p, ch)
  PROVE  SessionInv'
<1>1. WireInv /\ \A x \in Plug : Unplugged(x) \in Plug
  BY SessionInvParts DEF Unplugged, Plug, NoTxn
<1>2. ASSUME NEW c \in Connectors, faultConnector(p, c) PROVE SessionInv'
  <2> DEFINE h == [Idle EXCEPT !.kind = "rxFail", !.why = "HardwareFault", !.con = c]
  <2>1. h \in Handler /\ h.docs = NoDocs /\ h.kind = "rxFail"
    BY IdleIsSound DEF Handler, Idle, HandlerKinds, STOP_REASONS
  <2>2. rows' = rows /\ cmds' = cmds /\ Free(p) /\ Enter(p, h)
    BY <1>2 DEF faultConnector
  <2>3. plug' \in [Connectors -> Plug] /\ faults' \in 0..MaxFaults
    <3>0. faults < MaxFaults /\ faults' = faults + 1
      BY <1>2 DEF faultConnector
    <3>1. faults' \in 0..MaxFaults
      BY <1>1, <3>0, ConstantsAssumption DEF WireInv
    <3>2. plug[c] \in Plug /\ plug' = [plug EXCEPT ![c] = Unplugged(plug[c])]
      BY <1>1, <1>2 DEF faultConnector, WireInv
    <3> QED BY <1>1, <3>1, <3>2, PlugSet
  <2>4. WireInv'
    BY <1>1, <1>2, <2>3 DEF faultConnector, WireInv, CONNECTOR_STATUSES, counters
  <2> HIDE DEF h
  <2> QED BY <2>1, <2>2, <2>4, CallEntered
<1>3. ASSUME NEW ch \in Chargers, faultChargePoint(p, ch) PROVE SessionInv'
  <2> DEFINE h == [Idle EXCEPT !.kind = "rxFail", !.why = "HardwareFault", !.rest = {ch}]
  <2>1. h \in Handler /\ h.docs = NoDocs /\ h.kind = "rxFail"
    BY IdleIsSound DEF Handler, Idle, HandlerKinds, STOP_REASONS
  <2>2. rows' = rows /\ cmds' = cmds /\ Free(p) /\ Enter(p, h)
    BY <1>3 DEF faultChargePoint
  <2>3. plug' \in [Connectors -> Plug] /\ faults' \in 0..MaxFaults
    <3>0. faults < MaxFaults /\ faults' = faults + 1
      BY <1>3 DEF faultChargePoint
    <3>1. faults' \in 0..MaxFaults
      BY <1>1, <3>0, ConstantsAssumption DEF WireInv
    <3>2. \A c \in Connectors : plug[c] \in Plug /\ Unplugged(plug[c]) \in Plug
      BY <1>1 DEF WireInv
    <3>3. plug' \in [Connectors -> Plug]
      BY <1>3, <3>2 DEF faultChargePoint
    <3> QED BY <3>1, <3>3
  <2>4. WireInv'
    BY <1>1, <1>3, <2>3 DEF faultChargePoint, WireInv, counters
  <2> HIDE DEF h
  <2> QED BY <2>1, <2>2, <2>4, CallEntered
<1> QED BY <1>2, <1>3

-----------------------------------------------------------------------------
(* StartTransaction, MeterValues and StopTransaction *)

(* A handler reads a stored row into its copy. *)
LEMMA CopyLoaded ==
  ASSUME SessionInv, NEW p \in Slots, op[p].kind \notin {"awaitStart", "awaitStop"},
         NEW s \in Sessions, rows[s].status # "none",
         op' = [op EXCEPT ![p] = op'[p]], op'[p] \in Handler, op'[p].kind # "create",
         op'[p].sid = s, op'[p].docs = [op[p].docs EXCEPT ![s] = rows[s]],
         rows' = rows, cmds' = cmds, WireInv'
  PROVE  SessionInv'
<1>1. p \in Procs /\ op[p] \in Handler /\ HandlerInv(op[p])
  BY SessionInvParts DEF HandlersInv, Procs
<1>2. HandlerInv(op[p])'
  BY <1>1 DEF HandlerInv, Handler
<1> QED BY <1>1, <1>2, MoveHandler

(* The answer to a StartTransaction, or an error, leaves a plug and its status. *)
LEMMA RepliesTyped ==
  ASSUME WireInv, NEW h \in Handler, NEW t \in Nat, NEW a \in BOOLEAN,
         \/ h.sid \in Sessions /\ ReplyStart(h, t, a)
         \/ h.sid \in Sessions /\ ReplyStartError(h)
         \/ ReplyStop(h)
  PROVE  plug' \in [Connectors -> Plug] /\ cstat' \in [Connectors -> CONNECTOR_STATUSES]
<1>1. CASE UNCHANGED <<plug, cstat>>
  BY <1>1 DEF WireInv
<1> DEFINE c == h.con
           pl == plug[c]
           started == [pl EXCEPT !.begin[h.sid] = "no", !.txn = t, !.sid = h.sid,
                                 !.phase = "charging"]
           refused == [pl EXCEPT !.begin[h.sid] = "no"]
<1>2. CASE ~UNCHANGED <<plug, cstat>>
  <2>1. c \in Connectors
    BY <1>2 DEF ReplyStart, ReplyStartError, ReplyStop, Handler
  <2>2. pl \in Plug
    BY <2>1 DEF WireInv
  <2>3. \E f \in CONNECTOR_STATUSES : cstat' = [cstat EXCEPT ![c] = f]
    BY <1>2 DEF ReplyStart, ReplyStartError, ReplyStop, CONNECTOR_STATUSES
  <2>4. \/ plug' = [plug EXCEPT ![c] = started] /\ h.sid \in Sessions
        \/ plug' = [plug EXCEPT ![c] = refused] /\ h.sid \in Sessions
        \/ plug' = [plug EXCEPT ![c] = Unplugged(pl)]
    BY <1>2 DEF ReplyStart, ReplyStartError, ReplyStop
  <2>5. /\ h.sid \in Sessions => started \in Plug /\ refused \in Plug
        /\ Unplugged(pl) \in Plug
    BY <2>2 DEF Plug, Unplugged, NoTxn
  <2> HIDE DEF started, refused, pl
  <2>6. plug' \in [Connectors -> Plug]
    BY <2>1, <2>4, <2>5, PlugSet
  <2>7. cstat' \in [Connectors -> CONNECTOR_STATUSES]
    BY <2>3 DEF WireInv
  <2> QED BY <2>6, <2>7
<1> QED BY <1>1, <1>2

LEMMA OnStartTransactionKeeps ==
  ASSUME SessionInv, NEW p \in Slots, onStartTransaction(p)
  PROVE  SessionInv'
<1> DEFINE h == op[p]
           r == rows[h.sid]
<1>1. /\ p \in Procs /\ h \in Handler /\ HandlerInv(h) /\ h.kind = "rxStart"
      /\ h.sid \in Sessions
  BY SessionInvParts
     DEF onStartTransaction, HandlersInv, HandlerInv, Procs, SessionKinds, HandlerKinds
<1>2. r \in Row /\ r.txn \in Nat
  BY <1>1, SessionInvParts DEF StoreInv, Row
<1>3. rows' = rows /\ cmds' = cmds /\ nextTxn' \in Nat
  <2>1. nextTxn \in Nat
    BY SessionInvParts DEF WireInv
  <2>2. rows' = rows /\ cmds' = cmds /\ (nextTxn' = nextTxn \/ nextTxn' = nextTxn + 1)
    BY DEF onStartTransaction, allocateTransactionId
  <2> QED BY <2>1, <2>2
<1>4. /\ plug' \in [Connectors -> Plug] /\ cstat' \in [Connectors -> CONNECTOR_STATUSES]
  <2>1. CASE UNCHANGED <<plug, cstat>>
    BY <2>1, SessionInvParts DEF WireInv
  <2>2. CASE ReplyStart(h, r.txn, TRUE)
    BY <1>1, <1>2, <2>2, SessionInvParts, RepliesTyped
  <2>3. CASE ReplyStart(h, nextTxn', FALSE)
    BY <1>1, <1>3, <2>3, SessionInvParts, RepliesTyped
  <2> QED BY <2>1, <2>2, <2>3 DEF onStartTransaction
<1>5. WireInv'
  BY <1>3, <1>4, SessionInvParts DEF onStartTransaction, WireInv, bounds
<1>6. CASE Leave(p)
  BY <1>1, <1>3, <1>5, <1>6, LeaveHandler
<1>7. CASE ~Leave(p)
  <2> PICK t \in Nat : t = nextTxn'
    BY <1>3
  <2> DEFINE g == [h EXCEPT !.kind = "confirm", !.txn = t, !.docs[h.sid] = r]
  <2>1. Enter(p, g) /\ r.status = "initiating"
    BY <1>7 DEF onStartTransaction
  <2>2. op' = [op EXCEPT ![p] = op'[p]] /\ op'[p] = g
    BY <1>1, <2>1, SessionInvParts DEF Enter, HandlersInv
  <2>3. g \in Handler /\ g.kind = "confirm" /\ g.sid = h.sid
        /\ g.docs = [h.docs EXCEPT ![h.sid] = r]
    <3> HIDE DEF h, r
    <3>1. g \in Handler
      BY <1>1, <1>2 DEF Handler, HandlerKinds
    <3> QED BY <1>1, <3>1 DEF Handler
  <2> QED BY <1>1, <1>3, <1>5, <2>1, <2>2, <2>3, CopyLoaded
<1> QED BY <1>6, <1>7

LEMMA SaveConfirmedKeeps ==
  ASSUME SessionInv, NEW p \in Slots, saveConfirmed(p)
  PROVE  SessionInv'
<1> DEFINE h == op[p]
           old == h.docs[h.sid]
           new == Confirmed(old, h.txn, h.wh)
<1>1. /\ p \in Procs /\ h \in Handler /\ HandlerInv(h)
      /\ h.kind \in {"confirm", "confirmAgain"}
      /\ h.sid \in Sessions /\ old.status # "none"
  BY SessionInvParts
     DEF saveConfirmed, HandlersInv, HandlerInv, Procs, CopyKinds, SessionKinds, HandlerKinds
<1>2. old \in Row /\ h.txn \in Nat /\ h.wh \in 0..MaxMeter
  BY <1>1 DEF Handler
<1>3. new \in Row /\ new.amount = old.amount /\ new.status # "none"
  <2>1. "none" \in STOP_REASONS
    BY DEF STOP_REASONS
  <2> HIDE DEF old, h
  <2> QED BY <1>1, <1>2, <2>1, CopyEdits
<1>4. Save(h.sid, old, new) /\ cmds' = cmds
  BY DEF saveConfirmed
<1>5. /\ plug' \in [Connectors -> Plug] /\ cstat' \in [Connectors -> CONNECTOR_STATUSES]
  <2>1. CASE UNCHANGED <<plug, cstat>>
    BY <2>1, SessionInvParts DEF WireInv
  <2>2. CASE ReplyStart(h, h.txn, TRUE)
    BY <1>1, <1>2, <2>2, SessionInvParts, RepliesTyped
  <2>3. CASE ReplyStartError(h)
    BY <1>1, <1>2, <2>3, SessionInvParts, RepliesTyped
  <2> QED BY <2>1, <2>2, <2>3 DEF saveConfirmed
<1>6. WireInv'
  BY <1>4, <1>5, SessionInvParts DEF saveConfirmed, WireInv, counters, bounds
<1> HIDE DEF new
<1>7. CASE Leave(p)
  <2>1. h.kind \in CopyKinds /\ h.kind \notin {"awaitStart", "awaitStop"}
    BY <1>1 DEF CopyKinds, SessionKinds, HandlerKinds
  <2> QED BY <1>1, <1>3, <1>4, <1>6, <1>7, <2>1, SaveAndLeave
<1>8. CASE ~Leave(p)
  <2>1. ~Admitted(h.sid, old, new) /\ Goto(p, "reseed")
    BY <1>8 DEF saveConfirmed, new
  <2>2. rows' = rows
    BY <1>4, <2>1 DEF Save
  <2>3. op' = [op EXCEPT ![p] = op'[p]] /\ op'[p] = [h EXCEPT !.kind = "reseed"]
    BY <1>1, <2>1, SessionInvParts DEF Goto, HandlersInv
  <2>4. op'[p] \in Handler /\ op'[p].kind # "create"
    BY <1>1, <2>3 DEF Handler, HandlerKinds
  <2>5. HandlerInv(op[p])'
    BY <1>1, <2>2, <2>3 DEF HandlerInv, Handler
  <2> QED BY <1>1, <1>4, <1>6, <2>2, <2>3, <2>4, <2>5, MoveHandler
<1> QED BY <1>7, <1>8

(* A handler goes on with the copies it already holds. *)
LEMMA HandlerMoved ==
  ASSUME SessionInv, NEW p \in Slots, op[p].kind \notin {"awaitStart", "awaitStop"},
         op' = [op EXCEPT ![p] = op'[p]], op'[p] \in Handler, op'[p].kind # "create",
         op'[p].sid = op[p].sid, op'[p].docs = op[p].docs,
         op'[p].kind \in SessionKinds => op[p].kind \in SessionKinds,
         op'[p].kind \in CopyKinds => op[p].kind \in CopyKinds,
         rows' = rows, cmds' = cmds, WireInv'
  PROVE  SessionInv'
<1>1. p \in Procs /\ op[p] \in Handler /\ HandlerInv(op[p])
  BY SessionInvParts DEF HandlersInv, Procs
<1>2. HandlerInv(op[p])'
  BY <1>1 DEF HandlerInv, Handler
<1> QED BY <1>1, <1>2, MoveHandler

LEMMA HighestIsNatural ==
  ASSUME StoreInv, nextTxn \in Nat, NEW n \in highestTransactionId
  PROVE  seedTransactionId(n) \in Nat /\ allocateTransactionId(seedTransactionId(n)) \in Nat
<1>1. n \in Nat
  BY DEF highestTransactionId, StoreInv, Row, NoTxn
<1>2. seedTransactionId(n) \in Nat
  BY <1>1 DEF seedTransactionId
<1> QED BY <1>2 DEF allocateTransactionId

LEMMA ReseedKeeps ==
  ASSUME SessionInv, NEW p \in Slots, reseedTransactionIds(p)
  PROVE  SessionInv'
<1> DEFINE h == op[p]
<1>1. p \in Procs /\ h \in Handler /\ h.kind = "reseed"
  BY SessionInvParts DEF reseedTransactionIds, HandlersInv, Procs
<1>2. nextTxn' \in Nat
  BY SessionInvParts, HighestIsNatural DEF reseedTransactionIds, WireInv
<1>3. rows' = rows /\ cmds' = cmds /\ WireInv'
  BY <1>2, SessionInvParts DEF reseedTransactionIds, WireInv, db, net, bounds
<1> PICK t \in Nat : t = nextTxn'
  BY <1>2
<1> DEFINE g == [h EXCEPT !.kind = "confirmAgain", !.txn = t]
<1>4. op' = [op EXCEPT ![p] = op'[p]] /\ op'[p] = g
  BY <1>1, SessionInvParts DEF reseedTransactionIds, Enter, HandlersInv
<1>5. g \in Handler /\ g.kind = "confirmAgain" /\ g.sid = h.sid /\ g.docs = h.docs
  <2> HIDE DEF h
  <2> QED BY <1>1 DEF Handler, HandlerKinds
<1>6. h.kind \in CopyKinds /\ h.kind \in SessionKinds
  BY <1>1 DEF CopyKinds, SessionKinds, HandlerKinds
<1> HIDE DEF g
<1> QED BY <1>1, <1>3, <1>4, <1>5, <1>6, HandlerMoved

LEMMA OnMeterValuesKeeps ==
  ASSUME SessionInv, NEW p \in Slots, onMeterValues(p)
  PROVE  SessionInv'
<1> DEFINE h == op[p]
<1>1. p \in Procs /\ h \in Handler /\ h.kind = "rxMeter"
  BY SessionInvParts DEF onMeterValues, HandlersInv, Procs
<1>2. rows' = rows /\ cmds' = cmds /\ WireInv'
  BY SessionInvParts DEF onMeterValues, WireInv, db, net, counters, bounds
<1>3. CASE Leave(p)
  BY <1>1, <1>2, <1>3, LeaveHandler
<1>4. ASSUME NEW s \in OpenWithTxn(h.txn),
             Enter(p, [h EXCEPT !.kind = "reading", !.sid = s, !.docs[s] = rows[s]])
      PROVE  SessionInv'
  <2> DEFINE r == rows[s]
             g == [h EXCEPT !.kind = "reading", !.sid = s, !.docs[s] = r]
  <2>1. s \in Sessions /\ r \in Row /\ r.status # "none"
    BY <1>4, SessionInvParts DEF OpenWithTxn, IsOpen, OPEN_SESSION_STATUSES, StoreInv
  <2>2. op' = [op EXCEPT ![p] = op'[p]] /\ op'[p] = g
    BY <1>1, <1>4, SessionInvParts DEF Enter, HandlersInv
  <2>3. g \in Handler /\ g.kind = "reading" /\ g.sid = s /\ g.docs = [h.docs EXCEPT ![s] = r]
    <3> HIDE DEF h, r
    <3>1. g \in Handler
      BY <1>1, <2>1 DEF Handler, HandlerKinds
    <3> QED BY <1>1, <2>1, <3>1 DEF Handler
  <2> HIDE DEF g
  <2> QED BY <1>1, <1>2, <2>1, <2>2, <2>3, CopyLoaded
<1> QED BY <1>3, <1>4 DEF onMeterValues

LEMMA CreateReadingKeeps ==
  ASSUME SessionInv, NEW p \in Slots, createReading(p)
  PROVE  SessionInv'
<1> DEFINE h == op[p]
<1>1. /\ p \in Procs /\ h \in Handler /\ h.kind = "reading"
      /\ h.sid \in Sessions /\ h.wh \in 0..MaxMeter
  BY SessionInvParts
     DEF createReading, HandlersInv, HandlerInv, Procs, Handler, SessionKinds, HandlerKinds
<1>2. readings' \in [Sessions -> SUBSET (0..MaxMeter)]
  BY <1>1, SessionInvParts DEF createReading, WireInv
<1>3. rows' = rows /\ cmds' = cmds /\ WireInv'
  BY <1>2, SessionInvParts DEF createReading, WireInv, net, counters, bounds
<1>4. CASE Leave(p)
  BY <1>1, <1>3, <1>4, LeaveHandler
<1>5. CASE Goto(p, "meter")
  <2>1. op' = [op EXCEPT ![p] = op'[p]] /\ op'[p] = [h EXCEPT !.kind = "meter"]
    BY <1>1, <1>5, SessionInvParts DEF Goto, HandlersInv
  <2>2. op'[p] \in Handler /\ op'[p].kind = "meter" /\ op'[p].sid = h.sid /\ op'[p].docs = h.docs
    BY <1>1, <2>1 DEF Handler, HandlerKinds
  <2>3. h.kind \in CopyKinds /\ h.kind \in SessionKinds
    BY <1>1 DEF CopyKinds, SessionKinds, HandlerKinds
  <2> QED BY <1>1, <1>3, <2>1, <2>2, <2>3, HandlerMoved
<1> QED BY <1>4, <1>5 DEF createReading

LEMMA OnStopTransactionKeeps ==
  ASSUME SessionInv, NEW p \in Slots, onStopTransaction(p)
  PROVE  SessionInv'
<1> DEFINE h == op[p]
<1>1. p \in Procs /\ h \in Handler /\ h.kind = "rxStop"
  BY SessionInvParts DEF onStopTransaction, HandlersInv, Procs
<1>2. rows' = rows /\ cmds' = cmds
  BY DEF onStopTransaction
<1>3. plug' \in [Connectors -> Plug] /\ cstat' \in [Connectors -> CONNECTOR_STATUSES]
  <2>1. CASE UNCHANGED <<plug, cstat>>
    BY <2>1, SessionInvParts DEF WireInv
  <2>2. CASE ReplyStop(h)
    <3>1. 0 \in Nat /\ TRUE \in BOOLEAN
      OBVIOUS
    <3> QED BY <1>1, <2>2, <3>1, SessionInvParts, RepliesTyped
  <2> QED BY <2>1, <2>2 DEF onStopTransaction
<1>4. WireInv'
  BY <1>2, <1>3, SessionInvParts DEF onStopTransaction, WireInv, counters, bounds
<1>5. CASE Leave(p)
  BY <1>1, <1>2, <1>4, <1>5, LeaveHandler
<1>6. ASSUME NEW s \in OpenWithTxn(h.txn),
             Enter(p, [h EXCEPT !.kind = "finish", !.sid = s, !.docs[s] = rows[s]])
      PROVE  SessionInv'
  <2> DEFINE r == rows[s]
             g == [h EXCEPT !.kind = "finish", !.sid = s, !.docs[s] = r]
  <2>1. s \in Sessions /\ r \in Row /\ r.status # "none"
    BY <1>6, SessionInvParts DEF OpenWithTxn, IsOpen, OPEN_SESSION_STATUSES, StoreInv
  <2>2. op' = [op EXCEPT ![p] = op'[p]] /\ op'[p] = g
    BY <1>1, <1>6, SessionInvParts DEF Enter, HandlersInv
  <2>3. g \in Handler /\ g.kind = "finish" /\ g.sid = s /\ g.docs = [h.docs EXCEPT ![s] = r]
    <3> HIDE DEF h, r
    <3>1. g \in Handler
      BY <1>1, <2>1 DEF Handler, HandlerKinds
    <3> QED BY <1>1, <2>1, <3>1 DEF Handler
  <2> HIDE DEF g
  <2> QED BY <1>1, <1>2, <1>4, <2>1, <2>2, <2>3, CopyLoaded
<1> QED BY <1>5, <1>6 DEF onStopTransaction

LEMMA SaveFinishedKeeps ==
  ASSUME SessionInv, NEW p \in Slots, saveFinished(p)
  PROVE  SessionInv'
<1> DEFINE h == op[p]
           old == h.docs[h.sid]
           new == Finished(old, h.wh)
<1>1. /\ p \in Procs /\ h \in Handler /\ h.kind = "finish"
      /\ h.sid \in Sessions /\ old.status # "none"
  BY SessionInvParts
     DEF saveFinished, HandlersInv, HandlerInv, Procs, CopyKinds, SessionKinds, HandlerKinds
<1>2. old \in Row /\ h.wh \in 0..MaxMeter
  BY <1>1 DEF Handler
<1>3. new \in Row /\ new.amount = old.amount /\ new.status # "none"
  <2>1. "none" \in STOP_REASONS /\ 0 \in Nat
    BY DEF STOP_REASONS
  <2> HIDE DEF old, h
  <2> QED BY <1>1, <1>2, <2>1, CopyEdits
<1>4. Save(h.sid, old, new) /\ cmds' = cmds /\ Leave(p) /\ ReplyStop(h)
  BY DEF saveFinished
<1>5. /\ plug' \in [Connectors -> Plug] /\ cstat' \in [Connectors -> CONNECTOR_STATUSES]
  <2>1. 0 \in Nat /\ TRUE \in BOOLEAN
    OBVIOUS
  <2> QED BY <1>1, <1>4, <2>1, SessionInvParts, RepliesTyped
<1>6. WireInv'
  BY <1>4, <1>5, SessionInvParts DEF saveFinished, WireInv, counters, bounds
<1>7. h.kind \in CopyKinds /\ h.kind \notin {"awaitStart", "awaitStop"}
  BY <1>1 DEF CopyKinds, SessionKinds, HandlerKinds
<1> HIDE DEF new
<1> QED BY <1>1, <1>3, <1>4, <1>6, <1>7, SaveAndLeave

-----------------------------------------------------------------------------
(* Disconnects, faults and time *)

(* A handler reads all the rows it is going to fail. *)
LEMMA DocsLoaded ==
  ASSUME SessionInv, NEW p \in Procs, op[p].kind \notin {"awaitStart", "awaitStop"},
         op' = [op EXCEPT ![p] = op'[p]], op'[p] \in Handler,
         op'[p].kind \in {"fail", "sweep"},
         NEW S \in SUBSET Sessions, \A s \in S : rows[s].status # "none",
         op'[p].docs = DocsOf(S), rows' = rows, cmds' = cmds, WireInv'
  PROVE  SessionInv'
<1>1. HandlerInv(op[p])' /\ op'[p].kind # "create"
  BY DEF HandlerInv, DocsOf, NoRow, SessionKinds, CopyKinds, HandlerKinds
<1> QED BY <1>1, MoveHandler

LEMMA FailOpenSessionsKeeps ==
  ASSUME SessionInv, NEW p \in Slots, failOpenSessions(p)
  PROVE  SessionInv'
<1> DEFINE h == op[p]
<1>1. p \in Procs /\ h \in Handler /\ h.kind = "rxFail"
  BY SessionInvParts DEF failOpenSessions, HandlersInv, Procs
<1>2. rows' = rows /\ cmds' = cmds /\ WireInv'
  BY SessionInvParts DEF failOpenSessions, WireInv, db, net, counters, bounds
<1>3. ASSUME NEW S \in SUBSET Sessions PROVE DocsOf(S) \in [Sessions -> Row]
  BY SessionInvParts, NoRowIsRow DEF DocsOf, StoreInv
<1>4. ASSUME NEW S \in SUBSET Sessions, \A s \in S : IsOpen(rows[s]),
             NEW g \in Handler, g.kind = "fail", g.docs = DocsOf(S), Enter(p, g)
      PROVE  SessionInv'
  <2>1. op' = [op EXCEPT ![p] = op'[p]] /\ op'[p] = g
    BY <1>1, <1>4, SessionInvParts DEF Enter, HandlersInv
  <2>2. \A s \in S : rows[s].status # "none"
    BY <1>4 DEF IsOpen, OPEN_SESSION_STATUSES
  <2> QED BY <1>1, <1>2, <1>4, <2>1, <2>2, DocsLoaded
<1>5. CASE h.con # NoConnector
  <2> DEFINE S == OpenOnConnector(h.con)
             docs == DocsOf(S)
             g == [h EXCEPT !.kind = "fail", !.docs = docs]
  <2>1. S \in SUBSET Sessions /\ \A s \in S : IsOpen(rows[s])
    BY DEF OpenOnConnector
  <2>2. docs \in [Sessions -> Row]
    BY <1>3, <2>1
  <2>3. Enter(p, g)
    BY <1>5 DEF failOpenSessions
  <2>4. g \in Handler /\ g.kind = "fail" /\ g.docs = docs
    <3> HIDE DEF docs, h
    <3> QED BY <1>1, <2>2 DEF Handler, HandlerKinds
  <2> HIDE DEF g, S
  <2> QED BY <1>4, <2>1, <2>3, <2>4
<1>6. CASE h.con = NoConnector
  <2>1. PICK ch \in h.rest :
          Enter(p, [h EXCEPT !.kind = "fail", !.charger = ch, !.rest = h.rest \ {ch},
                             !.docs = DocsOf(OpenOnCharger(ch))])
    BY <1>6 DEF failOpenSessions
  <2> DEFINE S == OpenOnCharger(ch)
             docs == DocsOf(S)
             g == [h EXCEPT !.kind = "fail", !.charger = ch, !.rest = h.rest \ {ch},
                            !.docs = docs]
  <2>2. S \in SUBSET Sessions /\ \A s \in S : IsOpen(rows[s])
    BY DEF OpenOnCharger
  <2>3. docs \in [Sessions -> Row]
    BY <1>3, <2>2
  <2>4. g \in Handler /\ g.kind = "fail" /\ g.docs = docs
    <3>1. ch \in Chargers /\ h.rest \ {ch} \in SUBSET Chargers
      BY <1>1, <2>1 DEF Handler
    <3> HIDE DEF docs, h
    <3> QED BY <1>1, <2>3, <3>1 DEF Handler, HandlerKinds
  <2>5. Enter(p, g)
    BY <2>1
  <2> HIDE DEF g, S
  <2> QED BY <1>4, <2>2, <2>4, <2>5
<1> QED BY <1>5, <1>6

(* One turn of a failing loop: the copy is saved and forgotten. *)
LEMMA CopySaved ==
  ASSUME SessionInv, NEW p \in Procs, op[p].kind \in {"fail", "sweep"},
         NEW s \in Sessions, op[p].docs[s].status # "none",
         NEW new \in Row, new.amount = op[p].docs[s].amount, new.status # "none",
         Save(s, op[p].docs[s], new),
         Leave(p) \/ Enter(p, [op[p] EXCEPT !.docs[s] = NoRow]),
         cmds' = cmds, WireInv'
  PROVE  SessionInv'
<1> DEFINE h == op[p]
           g == [h EXCEPT !.docs[s] = NoRow]
<1>1. h \in Handler /\ HandlerInv(h)
  BY SessionInvParts DEF HandlersInv
<1>2. StoreInv' /\ RowsGrow /\ NoneCreated
  BY <1>1, SessionInvParts, SaveKeepsStore
<1>3. op' = [op EXCEPT ![p] = op'[p]] /\ op'[p] \in {Idle, g}
  BY SessionInvParts DEF Leave, Enter, HandlersInv
<1>4. op'[p] \in Handler /\ HandlerInv(op[p])' /\ op'[p].kind # "create"
  <2>1. CASE op'[p] = Idle
    BY <2>1, IdleIsSound DEF HandlerInv, Idle
  <2>2. CASE op'[p] = g
    <3>1. g \in Handler /\ g.kind = h.kind /\ g.docs = [h.docs EXCEPT ![s] = NoRow]
      <4> HIDE DEF h
      <4> QED BY <1>1, NoRowIsRow DEF Handler
    <3> HIDE DEF g
    <3>2. \A u \in Sessions :
            /\ g.docs[u].status # "none" => rows'[u].status # "none"
            /\ g.docs[u].con = IF g.docs[u].status = "none" THEN NoConnector ELSE rows'[u].con
            /\ g.docs[u].amount # Null => rows'[u].amount # Null
      <4> SUFFICES ASSUME NEW u \in Sessions
                   PROVE  /\ g.docs[u].status # "none" => rows'[u].status # "none"
                          /\ g.docs[u].con = IF g.docs[u].status = "none"
                                             THEN NoConnector ELSE rows'[u].con
                          /\ g.docs[u].amount # Null => rows'[u].amount # Null
        OBVIOUS
      <4>1. CASE u = s
        BY <1>1, <3>1, <4>1 DEF Handler, NoRow
      <4>2. CASE u # s
        <5>1. g.docs[u] = h.docs[u]
          BY <1>1, <3>1, <4>2 DEF Handler
        <5> QED BY <1>1, <1>2, <5>1 DEF HandlerInv, RowsGrow
      <4> QED BY <4>1, <4>2
    <3>3. g.kind \notin SessionKinds /\ g.kind \notin CopyKinds /\ g.kind # "create"
      BY <3>1 DEF SessionKinds, CopyKinds, HandlerKinds
    <3> QED BY <2>2, <3>1, <3>2, <3>3 DEF HandlerInv
  <2> QED BY <1>3, <2>1, <2>2
<1>5. HandlersInv'
  BY <1>2, <1>3, <1>4, SessionInvParts, HandlerSet
<1>6. CommandInv'
  BY <1>3, SessionInvParts, CommandsKept
<1>7. FreshInv'
  BY <1>2, <1>3, <1>4, SessionInvParts, FreshKept DEF HandlersInv
<1> QED BY <1>2, <1>5, <1>6, <1>7, SessionInvParts

LEMMA FailingSavesKeep ==
  ASSUME SessionInv,
         \/ \E p \in Slots, s \in Sessions : failSessions(p, s)
         \/ \E s \in Sessions : saveSwept(s)
  PROVE  SessionInv'
<1>1. PICK p \in Procs, s \in Sessions :
        /\ op[p].kind \in {"fail", "sweep"} /\ op[p].docs[s].status # "none"
        /\ \/ Save(s, op[p].docs[s], Failed(op[p].docs[s], op[p].why))
           \/ Save(s, op[p].docs[s], MarkedFailed(op[p].docs[s], op[p].why))
        /\ Leave(p) \/ Enter(p, [op[p] EXCEPT !.docs[s] = NoRow])
        /\ UNCHANGED <<readings, online, hwFault, cstat, overdue, net, counters, bounds>>
  BY DEF failSessions, saveSwept, Loaded, Procs
<1> DEFINE d == op[p].docs[s]
           y == op[p].why
<1>2. d \in Row /\ y \in STOP_REASONS
  BY SessionInvParts DEF HandlersInv, Handler
<1>3. PICK new : new \in {Failed(d, y), MarkedFailed(d, y)} /\ Save(s, d, new)
  BY <1>1
<1>4. new \in Row /\ new.amount = d.amount /\ new.status # "none"
  <2>1. 0 \in Nat /\ 0 \in 0..MaxMeter
    BY ConstantsAssumption
  <2>2. d.status # "none"
    BY <1>1
  <2> HIDE DEF d, y
  <2> QED BY <1>2, <1>3, <2>1, <2>2, CopyEdits
<1>5. cmds' = cmds /\ WireInv'
  BY <1>1, SessionInvParts DEF WireInv, net, counters, bounds
<1> QED BY <1>1, <1>3, <1>4, <1>5, CopySaved

LEMMA ReleaseConnectorsKeeps ==
  ASSUME SessionInv, NEW p \in Slots, releaseConnectors(p)
  PROVE  SessionInv'
<1> DEFINE h == op[p]
<1>1. p \in Procs /\ h \in Handler /\ h.kind = "fail"
  BY SessionInvParts DEF releaseConnectors, HandlersInv, Procs
<1>2. cstat' \in [Connectors -> CONNECTOR_STATUSES]
  BY SessionInvParts DEF releaseConnectors, WireInv, CONNECTOR_STATUSES
<1>3. rows' = rows /\ cmds' = cmds /\ WireInv'
  BY <1>2, SessionInvParts DEF releaseConnectors, WireInv, net, counters, bounds
<1>4. CASE Leave(p)
  BY <1>1, <1>3, <1>4, LeaveHandler
<1>5. CASE Goto(p, "rxFail")
  <2>1. op' = [op EXCEPT ![p] = op'[p]] /\ op'[p] = [h EXCEPT !.kind = "rxFail"]
    BY <1>1, <1>5, SessionInvParts DEF Goto, HandlersInv
  <2>2. op'[p] \in Handler /\ op'[p].kind = "rxFail" /\ op'[p].sid = h.sid /\ op'[p].docs = h.docs
    BY <1>1, <2>1 DEF Handler, HandlerKinds
  <2>3. "rxFail" \notin SessionKinds /\ "rxFail" \notin CopyKinds
    BY DEF CopyKinds, SessionKinds
  <2> QED BY <1>1, <1>3, <2>1, <2>2, <2>3, HandlerMoved
<1> QED BY <1>4, <1>5 DEF releaseConnectors

LEMMA SweepKeeps ==
  ASSUME SessionInv, sweepUnconfirmedSessions
  PROVE  SessionInv'
<1> DEFINE docs == DocsOf(Unconfirmed)
           g == [Idle EXCEPT !.kind = "sweep", !.why = "StartTimeout", !.docs = docs]
<1>1. Sweeper \in Procs /\ op[Sweeper].kind = "idle"
  BY DEF sweepUnconfirmedSessions, Procs
<1>2. rows' = rows /\ cmds' = cmds /\ WireInv'
  BY SessionInvParts DEF sweepUnconfirmedSessions, WireInv, db, net, counters, bounds
<1>3. Unconfirmed \in SUBSET Sessions /\ \A s \in Unconfirmed : rows[s].status # "none"
  BY SessionInvParts DEF Unconfirmed, WireInv
<1>4. docs \in [Sessions -> Row]
  BY <1>3, SessionInvParts, NoRowIsRow DEF DocsOf, StoreInv
<1>5. op' = [op EXCEPT ![Sweeper] = op'[Sweeper]] /\ op'[Sweeper] = g
  BY <1>1, SessionInvParts DEF sweepUnconfirmedSessions, Enter, HandlersInv
<1>6. g \in Handler /\ g.kind = "sweep" /\ g.docs = docs
  <2> HIDE DEF docs
  <2> QED BY <1>4, IdleIsSound DEF Handler, HandlerKinds, STOP_REASONS
<1> HIDE DEF g
<1> QED BY <1>1, <1>2, <1>3, <1>5, <1>6, DocsLoaded

(* A handler whose answer has nowhere to go keeps what it relies on. *)
LEMMA OrphanKept ==
  ASSUME NEW h \in Handler, HandlerInv(h), h.kind \in AwaitingReply
  PROVE  LET g == [h EXCEPT !.con = NoConnector]
         IN  /\ g \in Handler /\ g.kind = h.kind /\ g.sid = h.sid
             /\ HandlerInv(g)
<1> DEFINE g == [h EXCEPT !.con = NoConnector]
<1>1. g \in Handler /\ g.kind = h.kind /\ g.sid = h.sid /\ g.docs = h.docs
  BY DEF Handler
<1>2. h.kind # "create"
  BY DEF AwaitingReply
<1> HIDE DEF g
<1>3. HandlerInv(g)
  BY <1>1, <1>2 DEF HandlerInv
<1> QED BY <1>1, <1>3 DEF g

LEMMA DisconnectKeeps ==
  ASSUME SessionInv, NEW p \in Slots, NEW ch \in Chargers, disconnect(p, ch)
  PROVE  SessionInv'
<1> DEFINE f == [Idle EXCEPT !.kind = "rxFail", !.why = "ChargerDisconnected", !.rest = {ch}]
<1>1. f \in Handler /\ f.docs = NoDocs /\ f.kind = "rxFail"
  BY IdleIsSound DEF Handler, Idle, HandlerKinds, STOP_REASONS
<1>2. p \in Procs /\ op[p].kind = "idle" /\ op' = [Orphaned(ch) EXCEPT ![p] = f]
  BY DEF disconnect, Free, Procs
<1>3. rows' = rows /\ cmds' \subseteq cmds
  BY DEF disconnect
<1> HIDE DEF f
<1>4. StoreInv' /\ RowsGrow /\ NoneCreated
  BY <1>3, SessionInvParts, RowsKept
<1>5. op'[p] = f /\ DOMAIN op' = Procs /\ op' = [q \in Procs |-> op'[q]]
  BY <1>2 DEF Orphaned
<1>6. ASSUME NEW q \in Procs, q # p
      PROVE  /\ op'[q] \in Handler /\ HandlerInv(op'[q])
             /\ op'[q].kind = op[q].kind /\ op'[q].sid = op[q].sid
  <2>1. op[q] \in Handler /\ HandlerInv(op[q])
    BY SessionInvParts DEF HandlersInv
  <2>2. \/ op'[q] = op[q]
        \/ op[q].kind \in AwaitingReply /\ op'[q] = [op[q] EXCEPT !.con = NoConnector]
    BY <1>2, <1>6 DEF Orphaned
  <2> QED BY <2>1, <2>2, OrphanKept
<1>7. HandlersInv'
  <2>1. op' \in [Procs -> Handler]
    BY <1>1, <1>5, <1>6
  <2>2. ASSUME NEW q \in Procs PROVE HandlerInv(op[q])'
    <3>1. CASE q = p
      BY <1>1, <1>5, <3>1
         DEF HandlerInv, NoDocs, NoRow, SessionKinds, CopyKinds, HandlerKinds
    <3>2. CASE q # p
      BY <1>3, <1>6, <3>2 DEF HandlerInv
    <3> QED BY <3>1, <3>2
  <2> QED BY <2>1, <2>2 DEF HandlersInv
<1>8. FreshInv'
  BY <1>1, <1>4, <1>5, <1>6, SessionInvParts, FreshKept
<1>9. CommandInv'
  <2> SUFFICES ASSUME NEW m \in cmds', m.slot \in Slots
               PROVE  /\ op'[m.slot].kind = IF m.type = "start" THEN "awaitStart" ELSE "awaitStop"
                      /\ \A n \in cmds' : n.slot = m.slot => n = m
    BY DEF CommandInv
  <2>1. m.slot # p /\ m.slot \in Procs
    BY <1>2, <1>3, SessionInvParts DEF CommandInv, Procs
  <2> QED BY <1>3, <1>6, <2>1, SessionInvParts DEF CommandInv
<1>10. WireInv'
  <2>1. \A c \in Connectors : plug[c] \in Plug /\ Dropped(plug[c]) \in Plug
    <3> SUFFICES ASSUME NEW c \in Connectors PROVE plug[c] \in Plug /\ Dropped(plug[c]) \in Plug
      OBVIOUS
    <3>1. plug[c] \in Plug
      BY SessionInvParts DEF WireInv
    <3> QED BY <3>1, DroppedTyped
  <2>2. plug' \in [Connectors -> Plug]
    BY <2>1 DEF disconnect
  <2> QED BY <1>3, <2>2, SessionInvParts DEF disconnect, WireInv, counters, bounds
<1> QED BY <1>4, <1>7, <1>8, <1>9, <1>10, SessionInvParts

(* Handlers die with the process; what they relied on dies with them. *)
LEMMA RestartKeeps ==
  ASSUME SessionInv, NEW p \in Slots, restart(p)
  PROVE  SessionInv'
<1> DEFINE stale == {ch \in Chargers : online[ch]}
           f == [Idle EXCEPT !.kind = "rxFail", !.why = "ChargerDisconnected", !.rest = stale]
<1>1. f \in Handler /\ f.docs = NoDocs /\ f.kind = "rxFail"
  BY IdleIsSound DEF Handler, Idle, HandlerKinds, STOP_REASONS
<1>2. rows' = rows /\ cmds' = {} /\ op' = [q \in Procs |-> IF q = p /\ stale # {} THEN f ELSE Idle]
  BY DEF restart
<1> HIDE DEF f
<1>3. StoreInv' /\ RowsGrow /\ NoneCreated
  BY <1>2, SessionInvParts, RowsKept
<1>4. \A q \in Procs : op'[q] \in {f, Idle}
  BY <1>2
<1>5. Idle.docs = NoDocs /\ Idle.kind = "idle" /\ Idle \in Handler
  BY IdleIsSound DEF Idle
<1>6. HandlersInv'
  <2>1. op' \in [Procs -> Handler]
    BY <1>1, <1>2, <1>5
  <2>2. ASSUME NEW q \in Procs PROVE HandlerInv(op[q])'
    BY <1>1, <1>4, <1>5 DEF HandlerInv, NoDocs, NoRow, SessionKinds, CopyKinds, HandlerKinds
  <2> QED BY <2>1, <2>2 DEF HandlersInv
<1>7. FreshInv' /\ CommandInv'
  BY <1>1, <1>2, <1>4, <1>5 DEF FreshInv, CommandInv
<1>8. WireInv'
  <2>1. plug' \in [Connectors -> Plug]
    <3>1. \A c \in Connectors : Dropped(plug[c]) \in Plug
      BY SessionInvParts, DroppedTyped DEF WireInv
    <3> QED BY <3>1 DEF restart
  <2>2. restarts < MaxRestarts /\ restarts' = restarts + 1
    BY DEF restart
  <2>3. restarts' \in 0..MaxRestarts
    BY <2>2, SessionInvParts, ConstantsAssumption DEF WireInv
  <2> QED BY <1>2, <2>1, <2>3, SessionInvParts DEF restart, WireInv
<1> QED BY <1>3, <1>6, <1>7, <1>8, SessionInvParts

LEMMA SeedAndElapseKeep ==
  ASSUME SessionInv, seedAtBoot \/ \E s \in Sessions : elapse(s)
  PROVE  SessionInv'
<1>1. CASE seedAtBoot
  <2>1. nextTxn' \in Nat
    BY <1>1, SessionInvParts, HighestIsNatural DEF seedAtBoot, WireInv
  <2>2. rows' = rows /\ op' = op /\ cmds' = cmds /\ WireInv'
    BY <1>1, <2>1, SessionInvParts DEF seedAtBoot, WireInv, db, net, bounds
  <2> QED BY <2>2, HandlersUntouched
<1>2. ASSUME NEW s \in Sessions, elapse(s) PROVE SessionInv'
  <2>1. rows' = rows /\ op' = op /\ cmds' = cmds /\ WireInv'
    BY <1>2, SessionInvParts DEF elapse, WireInv, db, net, counters, bounds
  <2> QED BY <2>1, HandlersUntouched
<1> QED BY <1>1, <1>2

-----------------------------------------------------------------------------
(* The invariant *)

LEMMA InitEstablishes == Init => SessionInv
<1> SUFFICES ASSUME Init PROVE SessionInv
  OBVIOUS
<1>1. StoreInv
  BY NoRowIsRow DEF Init, StoreInv, NoRow, IsTerminal, TERMINAL
<1>2. HandlersInv /\ FreshInv
  <2>1. Idle \in Handler /\ HandlerInv(Idle) /\ Idle.kind = "idle"
    BY IdleIsSound DEF Idle
  <2> QED BY <2>1 DEF Init, HandlersInv, HandlerInv, FreshInv
<1>3. CommandInv
  BY DEF Init, CommandInv
<1>4. WireInv
  <2>1. PICK wh \in 0..MaxMeter :
          plug = [c \in Connectors |->
                   [begin |-> [s \in Sessions |-> "no"], phase |-> "idle", txn |-> NoTxn,
                    sid |-> NoSession, base |-> 0, meter |-> wh]]
    BY DEF Init
  <2>2. plug \in [Connectors -> Plug]
    BY <2>1, ConstantsAssumption DEF Plug, NoTxn
  <2> QED BY <2>2, ConstantsAssumption DEF Init, WireInv, CONNECTOR_STATUSES
<1> QED BY <1>1, <1>2, <1>3, <1>4, SessionInvParts

LEMMA NextKeeps == SessionInv /\ [Next]_vars => SessionInv'
<1> SUFFICES ASSUME SessionInv, [Next]_vars PROVE SessionInv'
  OBVIOUS
<1>1. ASSUME NEW p \in Slots, HandlerStep(p) PROVE SessionInv'
  <2>1. CASE createSession(p)        BY <2>1, CreateSessionKeeps
  <2>2. CASE commandTimeout(p)       BY <2>2, CommandTimeoutKeeps
  <2>3. CASE requestStop(p)          BY <2>3, RequestStopKeeps
  <2>4. CASE markFailed(p) \/ saveStopping(p) \/ saveStopOffline(p) \/ saveMeter(p)
    BY <2>4, SimpleSavesKeep
  <2>5. CASE onStartTransaction(p)   BY <2>5, OnStartTransactionKeeps
  <2>6. CASE saveConfirmed(p)        BY <2>6, SaveConfirmedKeeps
  <2>7. CASE reseedTransactionIds(p) BY <2>7, ReseedKeeps
  <2>8. CASE onMeterValues(p)        BY <2>8, OnMeterValuesKeeps
  <2>9. CASE createReading(p)        BY <2>9, CreateReadingKeeps
  <2>10. CASE onStopTransaction(p)   BY <2>10, OnStopTransactionKeeps
  <2>11. CASE saveFinished(p)        BY <2>11, SaveFinishedKeeps
  <2>12. CASE failOpenSessions(p)    BY <2>12, FailOpenSessionsKeeps
  <2>13. CASE \E s \in Sessions : failSessions(p, s)
    BY <2>13, FailingSavesKeep
  <2>14. CASE releaseConnectors(p)   BY <2>14, ReleaseConnectorsKeeps
  <2> QED BY <1>1, <2>1, <2>2, <2>3, <2>4, <2>5, <2>6, <2>7, <2>8, <2>9, <2>10,
             <2>11, <2>12, <2>13, <2>14 DEF HandlerStep
<1>2. ASSUME NEW p \in Slots, PersonStep(p) PROVE SessionInv'
  BY <1>2, StartSessionKeeps, StopSessionKeeps DEF PersonStep
<1>3. ASSUME NEW p \in Slots, ChargerCall(p) PROVE SessionInv'
  BY <1>3, SendStartTransactionKeeps, SendMeterValuesKeeps, SendStopTransactionKeeps,
     FaultsKeep, DisconnectKeeps DEF ChargerCall
<1>4. ASSUME NEW p \in Slots, restart(p) PROVE SessionInv'
  BY <1>4, RestartKeeps
<1>5. CASE SweeperStep
  BY <1>5, SweepKeeps, FailingSavesKeep DEF SweeperStep
<1>6. CASE ChargerStep
  BY <1>6, ChargerAnswersKeep, ChargerLocalStepsKeep DEF ChargerStep
<1>7. CASE seedAtBoot \/ \E s \in Sessions : elapse(s)
  BY <1>7, SeedAndElapseKeep
<1>8. CASE UNCHANGED vars
  <2>1. op' = op /\ rows' = rows /\ cmds' = cmds /\ WireInv'
    BY <1>8, SessionInvParts DEF vars, WireInv
  <2> QED BY <2>1, HandlersUntouched
<1> QED BY <1>1, <1>2, <1>3, <1>4, <1>5, <1>6, <1>7, <1>8 DEF Next

(* Every reachable state satisfies the inductive invariant. *)
THEOREM Invariance == Spec => []SessionInv
<1>1. Init => SessionInv
  BY InitEstablishes
<1>2. SessionInv /\ [Next]_vars => SessionInv'
  BY NextKeeps
<1> QED BY <1>1, <1>2, PTL DEF Spec

(* The rows, the copies handlers hold and the messages keep their types,   *)
(* whatever stale copy is saved over them.                                 *)
THEOREM TypeCorrect == Spec => []TypeOK
<1>1. SessionInv => TypeOK
  BY DEF SessionInv
<1> QED BY <1>1, Invariance, PTL

(* Whichever handlers raced to end it, a terminal session has an amount:   *)
(* settlement always finds something to collect (computeAmount).           *)
THEOREM TerminalPriced == Spec => []TerminalSessionsPriced
<1>1. SessionInv => TerminalSessionsPriced
  BY DEF SessionInv, TerminalSessionsPriced
<1> QED BY <1>1, Invariance, PTL

-----------------------------------------------------------------------------
(* Reservation: the unique indexes are what keeps it *)

\* A step that writes one row, admitted by the indexes.
WritesOneRow ==
  \E s \in Sessions : \E r : IndexesAdmit(s, r) /\ rows' = [rows EXCEPT ![s] = r]

(* A save writes its row or none. *)
LEMMA SaveWritesOneRow ==
  ASSUME NEW s \in Sessions, NEW old, NEW new, Save(s, old, new)
  PROVE  rows' = rows \/ WritesOneRow
BY DEF Save, Admitted, WritesOneRow

(* Every step writes at most one row, and only one the indexes admit. *)
LEMMA OneRowWritten ==
  ASSUME SessionInv, [Next]_vars
  PROVE  rows' = rows \/ WritesOneRow
<1>1. ASSUME NEW p \in Procs, op[p].kind \in SessionKinds PROVE op[p].sid \in Sessions
  BY <1>1, SessionInvParts DEF HandlersInv, HandlerInv
<1>2. ASSUME NEW p \in Slots, HandlerStep(p) PROVE rows' = rows \/ WritesOneRow
  <2> p \in Procs
    BY DEF Procs
  <2>1. CASE createSession(p)
    BY <1>1, <2>1 DEF createSession, WritesOneRow, SessionKinds, HandlerKinds
  <2>2. CASE markFailed(p)
    BY <1>1, <2>2, SaveWritesOneRow DEF markFailed, SessionKinds, HandlerKinds
  <2>3. CASE saveStopping(p)
    BY <1>1, <2>3, SaveWritesOneRow DEF saveStopping, SessionKinds, HandlerKinds
  <2>4. CASE saveStopOffline(p)
    BY <1>1, <2>4, SaveWritesOneRow DEF saveStopOffline, SessionKinds, HandlerKinds
  <2>5. CASE saveConfirmed(p)
    BY <1>1, <2>5, SaveWritesOneRow DEF saveConfirmed, SessionKinds, HandlerKinds
  <2>6. CASE saveMeter(p)
    BY <1>1, <2>6, SaveWritesOneRow DEF saveMeter, SessionKinds, HandlerKinds
  <2>7. CASE saveFinished(p)
    BY <1>1, <2>7, SaveWritesOneRow DEF saveFinished, SessionKinds, HandlerKinds
  <2>8. CASE \E s \in Sessions : failSessions(p, s)
    BY <2>8, SaveWritesOneRow DEF failSessions
  <2>9. CASE \/ requestStop(p) \/ commandTimeout(p) \/ onStartTransaction(p)
            \/ reseedTransactionIds(p) \/ onMeterValues(p) \/ createReading(p)
            \/ onStopTransaction(p) \/ failOpenSessions(p) \/ releaseConnectors(p)
    BY <2>9 DEF requestStop, commandTimeout, onStartTransaction, reseedTransactionIds,
                onMeterValues, createReading, onStopTransaction, failOpenSessions,
                releaseConnectors, db
  <2> QED BY <1>2, <2>1, <2>2, <2>3, <2>4, <2>5, <2>6, <2>7, <2>8, <2>9 DEF HandlerStep
<1>3. ASSUME NEW p \in Slots, PersonStep(p) \/ ChargerCall(p) \/ restart(p)
      PROVE  rows' = rows
  BY <1>3 DEF PersonStep, startSession, stopSession, ChargerCall, sendStartTransaction,
              sendMeterValues, sendStopTransaction, faultConnector, faultChargePoint,
              disconnect, restart, db
<1>4. CASE SweeperStep
  <2>1. CASE sweepUnconfirmedSessions
    BY <2>1 DEF sweepUnconfirmedSessions, db
  <2>2. CASE \E s \in Sessions : saveSwept(s)
    BY <2>2, SaveWritesOneRow DEF saveSwept
  <2> QED BY <1>4, <2>1, <2>2 DEF SweeperStep
<1>5. CASE ChargerStep
  BY <1>5 DEF ChargerStep, chargerRejects, chargerAcceptsStart, chargerAcceptsStop,
              authorizeIdTag, deliverEnergy, endOffline, connect, clearFaults, db
<1>6. CASE seedAtBoot \/ \E s \in Sessions : elapse(s)
  BY <1>6 DEF seedAtBoot, elapse, db
<1>7. CASE UNCHANGED vars
  BY <1>7 DEF vars
<1> QED BY <1>2, <1>3, <1>4, <1>5, <1>6, <1>7 DEF Next

(* Two requests that both passed startSession's checks, and every stale     *)
(* save after them, leave each connector at most one open session.          *)
THEOREM ConnectorReserved == Spec => []OneOpenSessionPerConnector
<1>1. Init => OneOpenSessionPerConnector
  BY DEF Init, OneOpenSessionPerConnector, IsOpen, OPEN_SESSION_STATUSES, NoRow
<1>2. ASSUME SessionInv, OneOpenSessionPerConnector, [Next]_vars
      PROVE  OneOpenSessionPerConnector'
  <2>1. CASE rows' = rows
    BY <1>2, <2>1 DEF OneOpenSessionPerConnector, IsOpen
  <2>2. CASE WritesOneRow
    <3>0. PICK s \in Sessions :
            \E r : ConnectorIndexAdmits(s, r) /\ rows' = [rows EXCEPT ![s] = r]
      BY <2>2 DEF WritesOneRow, IndexesAdmit
    <3>1. PICK r : ConnectorIndexAdmits(s, r) /\ rows' = [rows EXCEPT ![s] = r]
      BY <3>0
    <3>2. rows \in [Sessions -> Row]
      BY <1>2, SessionInvParts DEF StoreInv
    <3> QED BY <1>2, <3>1, <3>2 DEF OneOpenSessionPerConnector, ConnectorIndexAdmits, IsOpen
  <2> QED BY <1>2, <2>1, <2>2, OneRowWritten
<1> QED BY <1>1, <1>2, Invariance, PTL DEF Spec

(* Two taps racing past startSession's check, and every stale save after   *)
(* them, leave each driver at most one open session.                       *)
THEOREM DriverReserved == Spec => []OneOpenSessionPerDriver
<1>1. Init => OneOpenSessionPerDriver
  BY DEF Init, OneOpenSessionPerDriver, IsOpen, OPEN_SESSION_STATUSES, NoRow
<1>2. ASSUME SessionInv, OneOpenSessionPerDriver, [Next]_vars
      PROVE  OneOpenSessionPerDriver'
  <2>1. CASE rows' = rows
    BY <1>2, <2>1 DEF OneOpenSessionPerDriver, IsOpen
  <2>2. CASE WritesOneRow
    <3>0. PICK s \in Sessions :
            \E r : DriverIndexAdmits(s, r) /\ rows' = [rows EXCEPT ![s] = r]
      BY <2>2 DEF WritesOneRow, IndexesAdmit
    <3>1. PICK r : DriverIndexAdmits(s, r) /\ rows' = [rows EXCEPT ![s] = r]
      BY <3>0
    <3>2. rows \in [Sessions -> Row]
      BY <1>2, SessionInvParts DEF StoreInv
    <3> QED BY <1>2, <3>1, <3>2 DEF OneOpenSessionPerDriver, DriverIndexAdmits, IsOpen
  <2> QED BY <1>2, <2>1, <2>2, OneRowWritten
<1> QED BY <1>1, <1>2, Invariance, PTL DEF Spec
=============================================================================
