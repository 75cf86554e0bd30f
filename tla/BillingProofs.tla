---------------------------- MODULE BillingProofs -----------------------------
(***************************************************************************)
(* Results for every number of sessions, plugs and handlers, and charge    *)
(* points that do not repeat a StartTransaction:                           *)
(*                                                                         *)
(*   IdsStable                  a confirmed session is stored under the id *)
(*                              its charge point charges with              *)
(*   UniqueIdsBillWithinMeter   no session is billed for more energy than  *)
(*                              its plug's meter counted, as long as no    *)
(*                              transaction id is used twice               *)
(*   UniqueIdsMeterEnergy       nor, while no two starts overlap on a      *)
(*                              plug, is a row's energy other than the     *)
(*                              span of its readings                       *)
(*   CountedIdsApart            none is used twice until the backend       *)
(*                              restarts, whence                           *)
(*   BilledWithinMeter, EnergyIsMetered    the two until then, without     *)
(*                              that condition on the ids                  *)
(*                                                                         *)
(* IdsStable.  A row is made `active`, and given its id, by saveConfirmed  *)
(* only: a stale save of any other handler keeps both fields or ends the   *)
(* session.  So all that could part the row from the plug is a second      *)
(* confirmation after the plug has begun.  There is none, because the      *)
(* right to confirm a session is one thing that is handed on: a start      *)
(* command, then a plug that prepares, then a StartTransaction being       *)
(* handled, and nothing once a plug charges.                               *)
(*                                                                         *)
(* UniqueIdsBillWithinMeter.  A price is computed from the energy on a     *)
(* copy, and that from two readings which different handlers wrote,        *)
(* perhaps long apart.  What bounds it is that every copy, frame and plug  *)
(* of a session agrees with its row on the opening reading, and that no    *)
(* reading on its way is further above it than what was delivered          *)
(* (BillInv).  A frame finds its row by the transaction id alone, so this  *)
(* needs each id to be one plug's and one session's (NoIdReused): links,   *)
(* faults and restarts do no harm to it otherwise.                         *)
(*                                                                         *)
(* UniqueIdsMeterEnergy.  A save writes the fields its handler changed.    *)
(* While no reading is below the opening one, the last reading and the     *)
(* energy change together, so that a save writes both or neither;          *)
(* consumedWh cuts a span below 0 to 0, and then one may be written        *)
(* without the other.  None is below it, as a plug's counter starts at the *)
(* value its StartTransaction carried and only grows, unless another start *)
(* resets it meanwhile (OneStartPerPlug).                                  *)
(*                                                                         *)
(* CountedIdsApart.  Ids in rows, frames, handlers and plugs were all      *)
(* given out by the counter, each once, while it has never been set back   *)
(* (CounterInv).                                                           *)
(***************************************************************************)
EXTENDS ChargingSessionProofs

Confirming == {"rxStart", "confirm", "reseed", "confirmAgain"}
Allocated == {"confirm", "reseed", "confirmAgain"}

\* The three forms the right to confirm a session takes.
Commands(s) == {m \in cmds : m.type = "start" /\ m.sid = s}
Begun(s) == {c \in Connectors : plug[c].begin[s] \in {"preparing", "authorized"}}
Calls(s) == {p \in Procs : op[p].kind \in Confirming /\ op[p].sid = s}

Pending(s) == Commands(s) # {} \/ Begun(s) # {} \/ Calls(s) # {}

OneStart(s) ==
  /\ \A m, n \in Commands(s) : m = n
  /\ \A c, d \in Begun(s) : c = d
  /\ \A p, q \in Calls(s) : p = q
  /\ Commands(s) = {} \/ Begun(s) = {}
  /\ Commands(s) = {} \/ Calls(s) = {}
  /\ Begun(s) = {} \/ Calls(s) = {}
  /\ Pending(s) => rows[s].status # "none" /\ rows[s].txn = NoTxn

\* What a StartTransaction being handled holds once it has its id.
CallSound(h) ==
  h.kind \in Allocated =>
    /\ h.txn # NoTxn
    /\ h.docs[h.sid].status = "initiating" /\ h.docs[h.sid].txn = NoTxn

\* A plug that charges has used up its session's start.
PlugSound(c) ==
  plug[c].phase # "idle" =>
    /\ plug[c].sid \in Sessions /\ rows[plug[c].sid].status # "none"
    /\ ~Pending(plug[c].sid)
    /\ rows[plug[c].sid].status = "active" => rows[plug[c].sid].txn = plug[c].txn

IdInv ==
  /\ \A s \in Sessions : OneStart(s)
  /\ \A p \in Procs : CallSound(op[p])
  /\ \A c \in Connectors : PlugSound(c) /\ \A s \in Sessions : plug[c].begin[s] # "lost"
  /\ \A s \in Sessions : /\ rows[s].status = "active" => rows[s].txn # NoTxn
                         /\ rows[s].status \in {"none", "initiating"} => rows[s].txn = NoTxn

-----------------------------------------------------------------------------
(* What the steps that confirm nothing have in common *)

Ending == {"stopping", "completed", "failed"}

\* The row keeps its id, and its status unless it is ended.
RowSteady(s) ==
  /\ rows'[s].txn = rows[s].txn
  /\ \/ rows'[s].status = rows[s].status
     \/ rows[s].status # "none" /\ rows'[s].status \in Ending

\* Nobody gains the right to confirm the session.
StartSteady(s) ==
  /\ Commands(s)' # {} => Commands(s) # {}
  /\ \A m, n \in Commands(s)' : m = n
  /\ Begun(s)' \subseteq Begun(s)
  /\ Calls(s)' \subseteq Calls(s)

\* The plug goes on charging as it did, or stops.
PlugSteady(c) ==
  /\ plug'[c].phase # "idle" =>
       plug[c].phase # "idle" /\ plug'[c].sid = plug[c].sid /\ plug'[c].txn = plug[c].txn
  /\ \A s \in Sessions : plug'[c].begin[s] # "lost"

(* Then at most one right to confirm is left, and none where there was none. *)
LEMMA StartSteadyKeeps ==
  ASSUME NEW s \in Sessions, OneStart(s), RowSteady(s), StartSteady(s)
  PROVE  OneStart(s)' /\ (Pending(s)' => Pending(s))
<1>1. Pending(s)' => Pending(s)
  BY DEF StartSteady, Pending
<1>2. rows[s].status # "none" => rows'[s].status # "none"
  BY DEF RowSteady, Ending
<1> QED BY <1>1, <1>2 DEF OneStart, StartSteady, RowSteady

(* ... a row that is active has the id it had ... *)
LEMMA RowSteadyKeeps ==
  ASSUME NEW s \in Sessions, RowSteady(s)
  PROVE  /\ rows'[s].status = "active" => rows[s].status = "active" /\ rows'[s].txn = rows[s].txn
         /\ rows'[s].status \in {"none", "initiating"} =>
              rows[s].status \in {"none", "initiating"} /\ rows'[s].txn = rows[s].txn
         /\ rows[s].status # "none" => rows'[s].status # "none"
BY DEF RowSteady, Ending

(* ... and a plug that charges still charges under it. *)
LEMMA PlugSteadyKeeps ==
  ASSUME NEW c \in Connectors, PlugSound(c), PlugSteady(c),
         \A s \in Sessions : OneStart(s) /\ RowSteady(s) /\ StartSteady(s)
  PROVE  PlugSound(c)'
<1> SUFFICES ASSUME plug'[c].phase # "idle" PROVE PlugSound(c)'
  BY DEF PlugSound
<1>1. /\ plug[c].phase # "idle"
      /\ plug'[c].sid = plug[c].sid /\ plug'[c].txn = plug[c].txn
  BY DEF PlugSteady
<1>2. PICK s \in Sessions : s = plug[c].sid
  BY <1>1 DEF PlugSound
<1>3. /\ rows[s].status # "none" /\ ~Pending(s)
      /\ rows[s].status = "active" => rows[s].txn = plug[c].txn
  BY <1>1, <1>2 DEF PlugSound
<1>4. ~Pending(s)'
  BY <1>3, StartSteadyKeeps
<1>5. /\ rows'[s].status # "none"
      /\ rows'[s].status = "active" => rows'[s].txn = plug'[c].txn
  BY <1>1, <1>3, RowSteadyKeeps
<1>6. plug'[c].sid = s
  BY <1>1, <1>2
<1> QED BY <1>4, <1>5, <1>6 DEF PlugSound, Pending, Commands, Begun, Calls

\* A step in which every row, start, handler and plug is steady keeps the invariant.
LEMMA SteadyKeeps ==
  ASSUME IdInv,
         \A s \in Sessions : RowSteady(s) /\ StartSteady(s),
         \A q \in Procs : CallSound(op'[q]),
         \A c \in Connectors : PlugSteady(c)
  PROVE  IdInv'
<1>1. \A s \in Sessions : OneStart(s)'
  BY StartSteadyKeeps DEF IdInv
<1>2. \A c \in Connectors : PlugSound(c)'
  BY PlugSteadyKeeps DEF IdInv
<1>3. \A s \in Sessions : /\ rows'[s].status = "active" => rows'[s].txn # NoTxn
                          /\ rows'[s].status \in {"none", "initiating"} => rows'[s].txn = NoTxn
  BY RowSteadyKeeps DEF IdInv
<1>4. \A c \in Connectors : \A s \in Sessions : plug'[c].begin[s] # "lost"
  BY DEF PlugSteady
<1>5. \A q \in Procs : CallSound(op[q])'
  BY DEF CallSound
<1> QED BY <1>1, <1>2, <1>3, <1>4, <1>5 DEF IdInv

(* A handler that confirms nothing takes no right to confirm. *)
LEMMA OtherHandler ==
  ASSUME op \in [Procs -> Handler], \A q \in Procs : CallSound(op[q]),
         NEW p \in Procs, op' = [op EXCEPT ![p] = op'[p]],
         op'[p].kind \notin Confirming
  PROVE  /\ \A s \in Sessions : Calls(s)' \subseteq Calls(s)
         /\ \A q \in Procs : CallSound(op'[q])
<1>1. \A q \in Procs : q # p => op'[q] = op[q]
  OBVIOUS
<1>2. CallSound(op'[p])
  BY DEF CallSound, Allocated, Confirming
<1> QED BY <1>1, <1>2 DEF Calls

(* Withdrawing commands, or sending one to stop, starts nothing. *)
LEMMA NoNewCommand ==
  ASSUME NEW s \in Sessions, OneStart(s),
         \A m \in cmds' : m.type = "start" => m \in cmds
  PROVE  /\ Commands(s)' # {} => Commands(s) # {}
         /\ \A m, n \in Commands(s)' : m = n
<1>1. Commands(s)' \subseteq Commands(s)
  BY DEF Commands
<1> QED BY <1>1 DEF OneStart

(* Rows, plugs and commands left alone. *)
LEMMA Untouched ==
  /\ rows' = rows => \A s \in Sessions : RowSteady(s)
  /\ IdInv /\ plug' = plug =>
       (\A c \in Connectors : PlugSteady(c)) /\ (\A s \in Sessions : Begun(s)' \subseteq Begun(s))
  /\ cmds' = cmds => \A m \in cmds' : m.type = "start" => m \in cmds
BY DEF RowSteady, IdInv, PlugSteady, Begun

(* One handler moves on, confirms nothing, and the rest is steady. *)
LEMMA HandlerSteady ==
  ASSUME SessionInv, IdInv, NEW p \in Procs,
         op' = [op EXCEPT ![p] = op'[p]], op'[p].kind \notin Confirming,
         \A s \in Sessions : RowSteady(s),
         \A m \in cmds' : m.type = "start" => m \in cmds,
         \A c \in Connectors : PlugSteady(c),
         \A s \in Sessions : Begun(s)' \subseteq Begun(s)
  PROVE  IdInv'
<1>1. op \in [Procs -> Handler]
  BY SessionInvParts DEF HandlersInv
<1>2. /\ \A s \in Sessions : Calls(s)' \subseteq Calls(s)
      /\ \A q \in Procs : CallSound(op'[q])
  BY <1>1, OtherHandler DEF IdInv
<1>3. \A s \in Sessions : StartSteady(s)
  BY <1>2, NoNewCommand DEF IdInv, StartSteady
<1> QED BY <1>2, <1>3, SteadyKeeps

-----------------------------------------------------------------------------
(* Saves of handlers other than StartTransaction's *)

(* The pricing hook keeps a copy's id and status. *)
LEMMA HookKeepsId ==
  ASSUME NEW r \in Row
  PROVE  computeAmount(r).txn = r.txn /\ computeAmount(r).status = r.status
<1> DEFINE a == calculateAmountPaise(r.energy, PricePerKwh)
           b == r.paid \/ a = 0
<1>1. computeAmount(r) = IF IsTerminal(r) /\ r.amount = Null
                         THEN [r EXCEPT !.amount = a, !.paid = b] ELSE r
  BY DEF computeAmount
<1> HIDE DEF a, b
<1> QED BY <1>1 DEF Row

(* A save of a copy whose id the handler left alone writes no id, and the  *)
(* status only if the handler ends the session.                            *)
LEMMA SaveSteady ==
  ASSUME SessionInv, NEW p \in Procs, NEW s \in Sessions,
         op[p].docs[s].status # "none",
         NEW new \in Row, new.txn = op[p].docs[s].txn,
         new.status = op[p].docs[s].status \/ new.status \in Ending,
         Save(s, op[p].docs[s], new)
  PROVE  \A u \in Sessions : RowSteady(u)
<1> DEFINE old == op[p].docs[s]
           r == Saved(s, old, new)
<1>1. rows \in [Sessions -> Row] /\ rows[s].status # "none"
  BY SessionInvParts DEF StoreInv, HandlersInv, HandlerInv
<1>2. /\ r.txn = Keep(rows[s].txn, old.txn, new.txn)
      /\ r.status = Keep(rows[s].status, old.status, new.status)
  BY HookKeepsId DEF Saved, Merge
<1>3. r.txn = rows[s].txn /\ (r.status = rows[s].status \/ r.status \in Ending)
  BY <1>2 DEF Keep
<1> HIDE DEF r
<1>4. rows' = rows \/ rows' = [rows EXCEPT ![s] = r]
  BY DEF Save, r
<1>5. CASE rows' = rows
  BY <1>5, Untouched
<1>6. CASE rows' = [rows EXCEPT ![s] = r]
  <2>1. ASSUME NEW u \in Sessions PROVE RowSteady(u)
    BY <1>1, <1>3, <1>6 DEF RowSteady
  <2> QED BY <2>1
<1> QED BY <1>4, <1>5, <1>6

(* What every edit but a confirmation does to the id and the status. *)
LEMMA EditsKeepId ==
  ASSUME NEW r \in Row, NEW w \in 0..MaxMeter, NEW y \in STOP_REASONS
  PROVE  \A n \in {MarkedFailed(r, y), Stopping(r), Metered(r, w), Finished(r, w),
                   Failed(r, y)} :
           /\ n \in Row /\ n.txn = r.txn
           /\ n.status = r.status \/ n.status \in Ending
<1>1. \A n \in {MarkedFailed(r, y), Stopping(r), Metered(r, w), Finished(r, w),
                Failed(r, y)} : n \in Row
  BY CopyEdits DEF Row
<1>2. MarkedFailed(r, y).txn = r.txn /\ MarkedFailed(r, y).status = "failed"
  BY DEF MarkedFailed, Row
<1>3. Stopping(r).txn = r.txn /\ Stopping(r).status = "stopping"
  BY DEF Stopping, Row
<1>4. Metered(r, w).txn = r.txn /\ Metered(r, w).status = r.status
  BY DEF Metered, Row
<1>5. Finished(r, w).txn = r.txn /\ Finished(r, w).status = "completed"
  BY DEF Finished, Row
<1>6. Failed(r, y).txn = r.txn /\ Failed(r, y).status = "failed"
  BY DEF Failed, Row
<1> QED BY <1>1, <1>2, <1>3, <1>4, <1>5, <1>6 DEF Ending

(* So no save of another handler disturbs a row that charges. *)
LEMMA OtherSaveSteady ==
  ASSUME SessionInv, NEW p \in Procs, NEW s \in Sessions,
         op[p].docs[s].status # "none",
         \/ Save(s, op[p].docs[s], MarkedFailed(op[p].docs[s], op[p].why))
         \/ Save(s, op[p].docs[s], Stopping(op[p].docs[s]))
         \/ Save(s, op[p].docs[s], Metered(op[p].docs[s], op[p].wh))
         \/ Save(s, op[p].docs[s], Finished(op[p].docs[s], op[p].wh))
         \/ Save(s, op[p].docs[s], Failed(op[p].docs[s], op[p].why))
         \/ Save(s, op[p].docs[s], Failed(op[p].docs[s], "ChargerDisconnected"))
  PROVE  \A u \in Sessions : RowSteady(u)
<1> DEFINE r == op[p].docs[s]
           w == op[p].wh
           y == op[p].why
<1>1. r \in Row /\ w \in 0..MaxMeter /\ y \in STOP_REASONS
  BY SessionInvParts DEF HandlersInv, Handler
<1>2. PICK new \in {MarkedFailed(r, y), Stopping(r), Metered(r, w), Finished(r, w),
                    Failed(r, y), Failed(r, "ChargerDisconnected")} : Save(s, r, new)
  OBVIOUS
<1>3. "ChargerDisconnected" \in STOP_REASONS
  BY DEF STOP_REASONS
<1>4. /\ new \in Row /\ new.txn = r.txn
      /\ new.status = r.status \/ new.status \in Ending
  BY <1>1, <1>3, EditsKeepId
<1> QED BY <1>2, <1>4, SaveSteady

-----------------------------------------------------------------------------
(* The steps that confirm nothing, one action at a time *)

\* A handler that leaves is idle, and the others are as they were.
LEMMA HandlerLeft ==
  ASSUME SessionInv, NEW p \in Procs, Leave(p)
  PROVE  op' = [op EXCEPT ![p] = op'[p]] /\ op'[p] = Idle
BY SessionInvParts DEF Leave, HandlersInv

\* A handler that goes on has its next step, and the others are as they were.
LEMMA HandlerGoes ==
  ASSUME SessionInv, NEW p \in Procs, NEW kind, Goto(p, kind)
  PROVE  op' = [op EXCEPT ![p] = op'[p]] /\ op'[p].kind = kind
BY SessionInvParts DEF Goto, HandlersInv, Handler

(* An idle handler is not confirming. *)
LEMMA IdleConfirmsNothing == Idle.kind \notin Confirming /\ "idle" \notin Confirming
BY DEF Idle, Confirming

(* Every handler that only looks, or asks. *)
LEMMA LookingSteps ==
  ASSUME SessionInv, IdInv, NEW p \in Slots,
         \/ PersonStep(p) \/ requestStop(p)
         \/ onMeterValues(p) \/ createReading(p)
         \/ failOpenSessions(p) \/ releaseConnectors(p)
         \/ \E c \in Connectors, wh \in 0..MaxMeter : sendMeterValues(p, c, wh)
  PROVE  IdInv'
<1>0. p \in Procs /\ op \in [Procs -> Handler]
  BY SessionInvParts DEF Procs, HandlersInv
<1>1. rows' = rows /\ plug' = plug
  BY DEF PersonStep, startSession, stopSession, requestStop, onMeterValues, createReading,
         failOpenSessions, releaseConnectors, sendMeterValues, db, net
<1>2. \A m \in cmds' : m.type = "start" => m \in cmds
  <2>1. CASE requestStop(p)
    <3> DEFINE h == op[p]
               stop == [type |-> "stop", slot |-> p, sid |-> h.sid, con |-> h.docs[h.sid].con]
    <3>1. cmds' = cmds \/ cmds' = cmds \cup {stop}
      BY <2>1 DEF requestStop
    <3> QED BY <3>1
  <2>2. CASE ~requestStop(p)
    <3>1. cmds' = cmds
      BY <2>2 DEF PersonStep, startSession, stopSession, onMeterValues, createReading,
                  failOpenSessions, releaseConnectors, sendMeterValues, db, net
    <3> QED BY <3>1
  <2> QED BY <2>1, <2>2
<1>3. op' = [op EXCEPT ![p] = op'[p]] /\ op'[p].kind \notin Confirming
  <2>1. CASE PersonStep(p)
    <3>1. CASE \E d \in Drivers, c \in Connectors, s \in Sessions : startSession(p, d, c, s)
      BY <1>0, <3>1 DEF Enter, startSession, Idle, Confirming
    <3>2. CASE \E s \in Sessions : stopSession(p, s)
      BY <1>0, <3>2 DEF Enter, stopSession, Idle, Confirming
    <3> QED BY <2>1, <3>1, <3>2 DEF PersonStep
  <2>2. CASE requestStop(p)
    <3>1. Leave(p) \/ Goto(p, "stopOffline") \/ Goto(p, "awaitStop")
      BY <2>2 DEF requestStop
    <3> QED BY <1>0, <3>1, HandlerGoes, HandlerLeft DEF Idle, Confirming
  <2>3. CASE onMeterValues(p)
    <3>1. CASE Leave(p)
      BY <1>0, <3>1, HandlerLeft DEF Idle, Confirming
    <3>2. ASSUME NEW s \in Sessions,
                 Enter(p, [op[p] EXCEPT !.kind = "reading", !.sid = s, !.docs[s] = rows[s]])
          PROVE  op' = [op EXCEPT ![p] = op'[p]] /\ op'[p].kind \notin Confirming
      BY <1>0, <3>2 DEF Enter, Handler, Confirming
    <3> QED BY <2>3, <3>1, <3>2 DEF onMeterValues, OpenWithTxn
  <2>4. CASE createReading(p)
    BY <1>0, <2>4, HandlerGoes, HandlerLeft DEF createReading, Idle, Confirming
  <2>5. CASE failOpenSessions(p)
    <3>1. CASE Enter(p, [op[p] EXCEPT !.kind = "fail",
                                      !.docs = DocsOf(OpenOnConnector(op[p].con))])
      BY <1>0, <3>1 DEF Enter, Handler, Confirming
    <3>2. ASSUME NEW ch,
                 Enter(p, [op[p] EXCEPT !.kind = "fail", !.charger = ch, !.rest = @ \ {ch},
                                        !.docs = DocsOf(OpenOnCharger(ch))])
          PROVE  op' = [op EXCEPT ![p] = op'[p]] /\ op'[p].kind \notin Confirming
      BY <1>0, <3>2 DEF Enter, Handler, Confirming
    <3> QED BY <2>5, <3>1, <3>2 DEF failOpenSessions
  <2>6. CASE releaseConnectors(p)
    BY <1>0, <2>6, HandlerGoes, HandlerLeft DEF releaseConnectors, Idle, Confirming
  <2>7. CASE \E c \in Connectors, wh \in 0..MaxMeter : sendMeterValues(p, c, wh)
    <3>1. PICK txn, wh : Enter(p, [Idle EXCEPT !.kind = "rxMeter", !.txn = txn, !.wh = wh])
      BY <2>7 DEF sendMeterValues
    <3> QED BY <1>0, <3>1 DEF Enter, Idle, Confirming
  <2> QED BY <2>1, <2>2, <2>3, <2>4, <2>5, <2>6, <2>7
<1> QED BY <1>0, <1>1, <1>2, <1>3, Untouched, HandlerSteady

(* A plug that is unplugged, or goes from one phase of charging to another. *)
LEMMA PlugEdits ==
  ASSUME SessionInv, IdInv, NEW c \in Connectors, NEW pl,
         \/ pl = Unplugged(plug[c])
         \/ plug[c].phase # "idle" /\ \E x : pl = [plug[c] EXCEPT !.phase = x]
  PROVE  /\ pl.begin = plug[c].begin
         /\ pl.phase # "idle" =>
              plug[c].phase # "idle" /\ pl.sid = plug[c].sid /\ pl.txn = plug[c].txn
<1>1. plug[c] \in Plug
  BY SessionInvParts DEF WireInv
<1> QED BY <1>1 DEF Unplugged, Plug

(* Plugs that keep their starts, and charge on or stop. *)
LEMMA PlugsEdited ==
  ASSUME IdInv,
         \A c \in Connectors :
           /\ plug'[c].begin = plug[c].begin
           /\ plug'[c].phase # "idle" =>
                plug[c].phase # "idle" /\ plug'[c].sid = plug[c].sid /\ plug'[c].txn = plug[c].txn
  PROVE  /\ \A c \in Connectors : PlugSteady(c)
         /\ \A s \in Sessions : Begun(s)' \subseteq Begun(s)
BY DEF IdInv, PlugSteady, Begun

(* The StopTransaction a charger sends, and its faults. *)
LEMMA StopsAndFaults ==
  ASSUME SessionInv, IdInv, NEW p \in Slots,
         \/ \E c \in Connectors : sendStopTransaction(p, c) \/ faultConnector(p, c)
         \/ \E ch \in Chargers : faultChargePoint(p, ch)
  PROVE  IdInv'
<1>0. p \in Procs /\ plug \in [Connectors -> Plug] /\ op \in [Procs -> Handler]
  BY SessionInvParts DEF Procs, WireInv, HandlersInv
<1>1. rows' = rows /\ cmds' = cmds
  BY DEF sendStopTransaction, faultConnector, faultChargePoint
<1>2. op' = [op EXCEPT ![p] = op'[p]] /\ op'[p].kind \notin Confirming
  <2>1. ASSUME NEW c \in Connectors, sendStopTransaction(p, c)
        PROVE  op' = [op EXCEPT ![p] = op'[p]] /\ op'[p].kind \notin Confirming
    BY <1>0, <2>1 DEF Enter, sendStopTransaction, Idle, Confirming
  <2>2. ASSUME NEW c \in Connectors, faultConnector(p, c)
        PROVE  op' = [op EXCEPT ![p] = op'[p]] /\ op'[p].kind \notin Confirming
    BY <1>0, <2>2 DEF Enter, faultConnector, Idle, Confirming
  <2>3. ASSUME NEW ch \in Chargers, faultChargePoint(p, ch)
        PROVE  op' = [op EXCEPT ![p] = op'[p]] /\ op'[p].kind \notin Confirming
    BY <1>0, <2>3 DEF Enter, faultChargePoint, Idle, Confirming
  <2> QED BY <2>1, <2>2, <2>3
<1>3. ASSUME NEW d \in Connectors
      PROVE  \/ plug'[d] = plug[d] \/ plug'[d] = Unplugged(plug[d])
             \/ plug[d].phase # "idle" /\ \E x : plug'[d] = [plug[d] EXCEPT !.phase = x]
  <2>1. ASSUME NEW c \in Connectors, sendStopTransaction(p, c)
        PROVE  \/ plug'[d] = plug[d]
               \/ plug[d].phase # "idle" /\ \E x : plug'[d] = [plug[d] EXCEPT !.phase = x]
    <3>1. /\ plug' = [plug EXCEPT ![c] = [plug[c] EXCEPT !.phase = "ending"]]
          /\ plug[c].phase # "idle"
      BY <1>0, <2>1 DEF sendStopTransaction
    <3> QED BY <1>0, <3>1
  <2>2. ASSUME NEW c \in Connectors, faultConnector(p, c)
        PROVE  plug'[d] = plug[d] \/ plug'[d] = Unplugged(plug[d])
    BY <1>0, <2>2 DEF faultConnector
  <2>3. ASSUME NEW ch \in Chargers, faultChargePoint(p, ch)
        PROVE  plug'[d] = plug[d] \/ plug'[d] = Unplugged(plug[d])
    BY <1>0, <2>3 DEF faultChargePoint
  <2> QED BY <2>1, <2>2, <2>3
<1>4. \A d \in Connectors :
        /\ plug'[d].begin = plug[d].begin
        /\ plug'[d].phase # "idle" =>
             plug[d].phase # "idle" /\ plug'[d].sid = plug[d].sid /\ plug'[d].txn = plug[d].txn
  BY <1>3, PlugEdits
<1> HIDE DEF IdInv
<1> QED BY <1>0, <1>1, <1>2, <1>4, PlugsEdited, Untouched, HandlerSteady

(* The saves of the handlers that confirm nothing. *)
LEMMA OtherSaves ==
  ASSUME SessionInv, IdInv, NEW p \in Procs,
         \/ markFailed(p) \/ saveStopping(p) \/ saveStopOffline(p) \/ saveMeter(p)
         \/ \E s \in Sessions : failSessions(p, s)
         \/ p = Sweeper /\ \E s \in Sessions : saveSwept(s)
  PROVE  IdInv'
<1>0. op \in [Procs -> Handler]
  BY SessionInvParts DEF HandlersInv
<1>1. plug' = plug /\ cmds' = cmds
  BY DEF markFailed, saveStopping, saveStopOffline, saveMeter, failSessions, saveSwept, net
<1>2. ASSUME op[p].kind \in CopyKinds
      PROVE  op[p].sid \in Sessions /\ op[p].docs[op[p].sid].status # "none"
  BY <1>2, SessionInvParts DEF HandlersInv, HandlerInv, CopyKinds
<1>3. CASE markFailed(p) \/ saveStopping(p) \/ saveStopOffline(p) \/ saveMeter(p)
  <2>1. op[p].sid \in Sessions /\ op[p].docs[op[p].sid].status # "none"
    BY <1>2, <1>3 DEF markFailed, saveStopping, saveStopOffline, saveMeter, CopyKinds,
                      SessionKinds, HandlerKinds
  <2>2. PICK s \in Sessions : s = op[p].sid
    BY <2>1
  <2>3. \/ Save(s, op[p].docs[s], MarkedFailed(op[p].docs[s], op[p].why))
        \/ Save(s, op[p].docs[s], Stopping(op[p].docs[s]))
        \/ Save(s, op[p].docs[s], Metered(op[p].docs[s], op[p].wh))
        \/ Save(s, op[p].docs[s], Failed(op[p].docs[s], "ChargerDisconnected"))
    BY <1>3, <2>2 DEF markFailed, saveStopping, saveStopOffline, saveMeter
  <2>4. \A u \in Sessions : RowSteady(u)
    BY <2>1, <2>2, <2>3, OtherSaveSteady
  <2>5. op' = [op EXCEPT ![p] = op'[p]] /\ op'[p].kind \notin Confirming
    <3>1. Leave(p)
      BY <1>3 DEF markFailed, saveStopping, saveStopOffline, saveMeter
    <3> QED BY <3>1, HandlerLeft, IdleConfirmsNothing
  <2> QED BY <1>1, <2>4, <2>5, Untouched, HandlerSteady
<1>4. ASSUME NEW s \in Sessions,
             \/ failSessions(p, s)
             \/ p = Sweeper /\ saveSwept(s)
      PROVE  IdInv'
  <2>1. op[p].docs[s].status # "none"
    BY <1>4 DEF failSessions, saveSwept, Loaded
  <2>2. \/ Save(s, op[p].docs[s], MarkedFailed(op[p].docs[s], op[p].why))
        \/ Save(s, op[p].docs[s], Failed(op[p].docs[s], op[p].why))
    BY <1>4 DEF failSessions, saveSwept
  <2>3. \A u \in Sessions : RowSteady(u)
    BY <2>1, <2>2, OtherSaveSteady
  <2>4. op' = [op EXCEPT ![p] = op'[p]] /\ op'[p].kind \notin Confirming
    <3>1. op[p].kind \in {"fail", "sweep"}
      BY <1>4 DEF failSessions, saveSwept
    <3>2. Leave(p) \/ Enter(p, [op[p] EXCEPT !.docs[s] = NoRow])
      BY <1>4 DEF failSessions, saveSwept
    <3>3. CASE Leave(p)
      BY <3>3, HandlerLeft, IdleConfirmsNothing
    <3>4. CASE Enter(p, [op[p] EXCEPT !.docs[s] = NoRow])
      BY <1>0, <3>1, <3>4 DEF Enter, Handler, Confirming
    <3> QED BY <3>2, <3>3, <3>4
  <2> QED BY <1>1, <2>3, <2>4, Untouched, HandlerSteady
<1> QED BY <1>3, <1>4

(* The answer to a StopTransaction unplugs its own plug, or nothing. *)
LEMMA ReplyStopSteady ==
  ASSUME SessionInv, IdInv, NEW p \in Procs, ReplyStop(op[p])
  PROVE  /\ \A c \in Connectors : PlugSteady(c)
         /\ \A s \in Sessions : Begun(s)' \subseteq Begun(s)
<1>1. plug \in [Connectors -> Plug]
  BY SessionInvParts DEF WireInv
<1>2. CASE plug' = plug
  BY <1>2, Untouched
<1>3. ASSUME NEW c, plug' = [plug EXCEPT ![c] = Unplugged(@)]
      PROVE  /\ \A d \in Connectors : PlugSteady(d)
             /\ \A s \in Sessions : Begun(s)' \subseteq Begun(s)
  <2>1. ASSUME NEW d \in Connectors PROVE plug'[d] = plug[d] \/ plug'[d] = Unplugged(plug[d])
    BY <1>1, <1>3
  <2>2. \A d \in Connectors :
          /\ plug'[d].begin = plug[d].begin
          /\ plug'[d].phase # "idle" =>
               plug[d].phase # "idle" /\ plug'[d].sid = plug[d].sid /\ plug'[d].txn = plug[d].txn
    BY <2>1, PlugEdits
  <2> QED BY <2>2, PlugsEdited
<1> QED BY <1>2, <1>3 DEF ReplyStop

(* StopTransaction: the id is looked up, the copy completed. *)
LEMMA StopTransactions ==
  ASSUME SessionInv, IdInv, NEW p \in Slots, onStopTransaction(p) \/ saveFinished(p)
  PROVE  IdInv'
<1>0. p \in Procs /\ op \in [Procs -> Handler]
  BY SessionInvParts DEF Procs, HandlersInv
<1>1. cmds' = cmds
  BY DEF onStopTransaction, saveFinished
<1>2. /\ \A c \in Connectors : PlugSteady(c)
      /\ \A s \in Sessions : Begun(s)' \subseteq Begun(s)
  <2>1. plug' = plug \/ ReplyStop(op[p])
    BY DEF onStopTransaction, saveFinished
  <2> QED BY <1>0, <2>1, Untouched, ReplyStopSteady
<1>3. op' = [op EXCEPT ![p] = op'[p]] /\ op'[p].kind \notin Confirming
  <2>1. CASE Leave(p)
    BY <1>0, <2>1, HandlerLeft, IdleConfirmsNothing
  <2>2. ASSUME NEW s \in Sessions,
               Enter(p, [op[p] EXCEPT !.kind = "finish", !.sid = s, !.docs[s] = rows[s]])
        PROVE  op' = [op EXCEPT ![p] = op'[p]] /\ op'[p].kind \notin Confirming
    BY <1>0, <2>2 DEF Enter, Handler, Confirming
  <2> QED BY <2>1, <2>2 DEF onStopTransaction, saveFinished, OpenWithTxn
<1>4. \A u \in Sessions : RowSteady(u)
  <2>1. CASE onStopTransaction(p)
    BY <2>1, Untouched DEF onStopTransaction
  <2>2. CASE saveFinished(p)
    <3>1. op[p].sid \in Sessions /\ op[p].docs[op[p].sid].status # "none"
      BY <1>0, <2>2, SessionInvParts DEF saveFinished, HandlersInv, HandlerInv, CopyKinds,
                                         SessionKinds, HandlerKinds
    <3>2. PICK s \in Sessions : s = op[p].sid
      BY <3>1
    <3>3. Save(s, op[p].docs[s], Finished(op[p].docs[s], op[p].wh))
      BY <2>2, <3>2 DEF saveFinished
    <3> QED BY <1>0, <3>1, <3>2, <3>3, OtherSaveSteady
  <2> QED BY <2>1, <2>2
<1> QED BY <1>0, <1>1, <1>2, <1>3, <1>4, Untouched, HandlerSteady

-----------------------------------------------------------------------------
(* Commands: given up, refused, or a stop accepted *)

(* Giving up on a command leaves the command as it is but for its caller. *)
LEMMA AbandonedCommands ==
  ASSUME NEW p, NEW s \in Sessions, OneStart(s), cmds' = Abandoned(p)
  PROVE  /\ Commands(s)' # {} => Commands(s) # {}
         /\ \A m, n \in Commands(s)' : m = n
<1> DEFINE a(m) == IF m.slot = p THEN [m EXCEPT !.slot = Sweeper] ELSE m
<1>1. ASSUME NEW m \in Commands(s)' PROVE \E n \in Commands(s) : m = a(n)
  <2>1. PICK n \in cmds : m = a(n)
    BY <1>1 DEF Commands, Abandoned
  <2>2. m.type = n.type /\ m.sid = n.sid
    BY <2>1
  <2> QED BY <1>1, <2>1, <2>2 DEF Commands
<1> HIDE DEF a
<1> QED BY <1>1 DEF OneStart

\* commandTimeout: a start command given up is no longer anybody's to confirm.
LEMMA CommandsGivenUp ==
  ASSUME SessionInv, IdInv, NEW p \in Slots, commandTimeout(p)
  PROVE  IdInv'
<1>0. p \in Procs /\ op \in [Procs -> Handler]
  BY SessionInvParts DEF Procs, HandlersInv
<1>1. rows' = rows /\ plug' = plug /\ cmds' = Abandoned(p)
  BY DEF commandTimeout, db
<1>2. op' = [op EXCEPT ![p] = op'[p]] /\ op'[p].kind \notin Confirming
  <2>1. CASE Leave(p)
    BY <1>0, <2>1, HandlerLeft, IdleConfirmsNothing
  <2>2. CASE Enter(p, [op[p] EXCEPT !.kind = "markFailed", !.why = "StartTimeout"])
    BY <1>0, <2>2 DEF Enter, Handler, Confirming
  <2> QED BY <2>1, <2>2 DEF commandTimeout
<1>3. /\ \A s \in Sessions : Calls(s)' \subseteq Calls(s)
      /\ \A q \in Procs : CallSound(op'[q])
  BY <1>0, <1>2, OtherHandler DEF IdInv
<1>4. \A s \in Sessions : StartSteady(s)
  BY <1>1, <1>3, AbandonedCommands, Untouched DEF IdInv, StartSteady
<1> QED BY <1>1, <1>3, <1>4, Untouched, SteadyKeeps

(* The caller of a command, where there is one, goes to a handler that     *)
(* confirms nothing.                                                       *)
LEMMA AnswerSteady ==
  ASSUME SessionInv, IdInv, NEW m \in cmds, NEW h, h.kind \notin Confirming, Answer(m, h)
  PROVE  /\ \A s \in Sessions : Calls(s)' \subseteq Calls(s)
         /\ \A q \in Procs : CallSound(op'[q])
         /\ cmds' = cmds \ {m}
<1>0. op \in [Procs -> Handler]
  BY SessionInvParts DEF HandlersInv
<1>1. CASE op' = op
  BY <1>1 DEF Answer, IdInv, Calls
<1>2. CASE m.slot \in Slots /\ op' = [op EXCEPT ![m.slot] = h]
  <2>1. PICK p \in Procs : p = m.slot
    BY <1>2 DEF Procs
  <2>2. op' = [op EXCEPT ![p] = op'[p]] /\ op'[p].kind \notin Confirming
    BY <1>0, <1>2, <2>1
  <2> QED BY <1>0, <2>2, OtherHandler DEF IdInv, Answer
<1> QED BY <1>1, <1>2 DEF Answer

(* A handler that is asked to go on as markFailed or stopping. *)
LEMMA AnsweredHandler ==
  ASSUME SessionInv, NEW m \in cmds, m.slot \in Slots, NEW k, NEW y, k \notin Confirming
  PROVE  /\ [op[m.slot] EXCEPT !.kind = k].kind \notin Confirming
         /\ [op[m.slot] EXCEPT !.kind = k, !.why = y].kind \notin Confirming
<1>1. op[m.slot] \in Handler
  BY SessionInvParts DEF HandlersInv, Procs
<1> QED BY <1>1 DEF Handler

\* A rejected start is used up; an accepted stop hands nothing on.
LEMMA CommandsAnswered ==
  ASSUME SessionInv, IdInv, NEW m \in cmds, chargerRejects(m) \/ chargerAcceptsStop(m)
  PROVE  IdInv'
<1>0. m \in Command /\ plug \in [Connectors -> Plug]
  BY SessionInvParts DEF WireInv
<1>1. rows' = rows
  BY DEF chargerRejects, chargerAcceptsStop, db
<1>2. /\ \A s \in Sessions : Calls(s)' \subseteq Calls(s)
      /\ \A q \in Procs : CallSound(op'[q])
      /\ cmds' = cmds \ {m}
  <2>1. CASE m.slot \notin Slots
    BY <2>1 DEF chargerRejects, chargerAcceptsStop, Answer, IdInv, Calls
  <2>2. CASE m.slot \in Slots
    <3>1. PICK h : h.kind \notin Confirming /\ Answer(m, h)
      <4>1. CASE chargerAcceptsStop(m)
        BY <2>2, <4>1, AnsweredHandler DEF chargerAcceptsStop, Confirming
      <4>2. CASE chargerRejects(m) /\ m.type = "stop"
        BY <4>2, IdleConfirmsNothing DEF chargerRejects
      <4>3. CASE chargerRejects(m) /\ m.type # "stop"
        BY <2>2, <4>3, AnsweredHandler DEF chargerRejects, Confirming
      <4> QED BY <4>1, <4>2, <4>3
    <3> QED BY <3>1, AnswerSteady
  <2> QED BY <2>1, <2>2
<1>3. /\ \A c \in Connectors : PlugSteady(c)
      /\ \A s \in Sessions : Begun(s)' \subseteq Begun(s)
  <2>1. CASE plug' = plug
    BY <2>1, Untouched
  <2>2. CASE chargerAcceptsStop(m)
    <3>1. PICK x : plug' = [plug EXCEPT ![m.con] = [plug[m.con] EXCEPT !.phase = x]]
      BY <1>0, <2>2 DEF chargerAcceptsStop
    <3>2. ASSUME NEW d \in Connectors
          PROVE  \/ plug'[d] = plug[d]
                 \/ plug[d].phase # "idle" /\ plug'[d] = [plug[d] EXCEPT !.phase = x]
      BY <1>0, <2>2, <3>1 DEF chargerAcceptsStop
    <3>3. ASSUME NEW d \in Connectors
          PROVE  /\ plug'[d].begin = plug[d].begin
                 /\ plug'[d].phase # "idle" =>
                      /\ plug[d].phase # "idle"
                      /\ plug'[d].sid = plug[d].sid /\ plug'[d].txn = plug[d].txn
      <4>1. plug[d] \in Plug
        BY <1>0
      <4> QED BY ONLY <3>2, <4>1 DEF Plug
    <3> QED BY <3>3, PlugsEdited
  <2> QED BY <2>1, <2>2 DEF chargerRejects
<1>4. \A s \in Sessions : StartSteady(s)
  BY <1>2, <1>3, NoNewCommand DEF IdInv, StartSteady
<1> QED BY <1>1, <1>2, <1>3, <1>4, Untouched, SteadyKeeps

-----------------------------------------------------------------------------
(* What the charge point does on its own, and time *)

\* Metering, connecting, booting and the passing of time confirm nothing.
LEMMA LocalSteps ==
  ASSUME SessionInv, IdInv,
         \/ \E c \in Connectors, s \in Sessions : authorizeIdTag(c, s)
         \/ \E c \in Connectors : deliverEnergy(c) \/ endOffline(c)
         \/ \E ch \in Chargers : connect(ch) \/ clearFaults(ch)
         \/ seedAtBoot \/ \E s \in Sessions : elapse(s)
         \/ UNCHANGED vars
  PROVE  IdInv'
<1>0. plug \in [Connectors -> Plug]
  BY SessionInvParts DEF WireInv
<1>1. rows' = rows /\ op' = op /\ cmds' = cmds
  BY DEF authorizeIdTag, deliverEnergy, endOffline, connect, clearFaults, seedAtBoot,
         elapse, db, net, vars
<1>2. /\ \A s \in Sessions : Calls(s)' \subseteq Calls(s)
      /\ \A q \in Procs : CallSound(op'[q])
  BY <1>1 DEF Calls, IdInv
<1>3. ASSUME NEW d \in Connectors
      PROVE  /\ PlugSteady(d)
             /\ \A u \in Sessions : plug'[d].begin[u] \in {"preparing", "authorized"} =>
                                      plug[d].begin[u] \in {"preparing", "authorized"}
  <2>1. CASE plug' = plug
    BY <2>1 DEF IdInv, PlugSteady
  <2>2. ASSUME NEW c \in Connectors, NEW s \in Sessions, authorizeIdTag(c, s)
        PROVE  /\ PlugSteady(d)
               /\ \A u \in Sessions : plug'[d].begin[u] \in {"preparing", "authorized"} =>
                                        plug[d].begin[u] \in {"preparing", "authorized"}
    <3>1. PICK x \in {"authorized", "no"} :
            plug' = [plug EXCEPT ![c] = [plug[c] EXCEPT !.begin = [plug[c].begin EXCEPT ![s] = x]]]
      BY <1>0, <2>2 DEF authorizeIdTag
    <3>2. plug[c].begin[s] = "preparing"
      BY <2>2 DEF authorizeIdTag
    <3>3. CASE d = c
      <4>1. plug[c] \in Plug
        BY <1>0
      <4>2. /\ plug'[d].begin = [plug[c].begin EXCEPT ![s] = x]
            /\ plug'[d].phase = plug[d].phase /\ plug'[d].sid = plug[d].sid
            /\ plug'[d].txn = plug[d].txn
        BY <1>0, <3>1, <3>3, <4>1 DEF Plug
      <4>3. plug[c].begin \in [Sessions -> {"no", "preparing", "authorized", "starting", "lost"}]
        BY <4>1 DEF Plug
      <4>4. \A u \in Sessions : plug'[d].begin[u] = IF u = s THEN x ELSE plug[d].begin[u]
        BY <3>3, <4>2, <4>3
      <4> QED BY <3>2, <3>3, <4>2, <4>4 DEF IdInv, PlugSteady
    <3>4. CASE d # c
      BY <1>0, <3>1, <3>4 DEF IdInv, PlugSteady
    <3> QED BY <3>3, <3>4
  <2>3. ASSUME NEW c \in Connectors, deliverEnergy(c)
        PROVE  /\ PlugSteady(d) /\ plug'[d].begin = plug[d].begin
    <3>1. PICK x : plug' = [plug EXCEPT ![c] = [plug[c] EXCEPT !.meter = x]]
      BY <1>0, <2>3 DEF deliverEnergy
    <3>2. plug[c] \in Plug
      BY <1>0
    <3>3. /\ plug'[d].begin = plug[d].begin /\ plug'[d].phase = plug[d].phase
          /\ plug'[d].sid = plug[d].sid /\ plug'[d].txn = plug[d].txn
      BY <1>0, <3>1, <3>2 DEF Plug
    <3> QED BY <3>3 DEF IdInv, PlugSteady
  <2>4. ASSUME NEW c \in Connectors, endOffline(c)
        PROVE  /\ PlugSteady(d) /\ plug'[d].begin = plug[d].begin
    <3>1. plug'[d] = plug[d] \/ plug'[d] = Unplugged(plug[d])
      BY <1>0, <2>4 DEF endOffline
    <3> QED BY <3>1, PlugEdits DEF IdInv, PlugSteady
  <2>5. CASE \/ \E ch \in Chargers : connect(ch) \/ clearFaults(ch)
             \/ seedAtBoot \/ \E s \in Sessions : elapse(s)
             \/ UNCHANGED vars
    <3>1. plug' = plug
      BY <2>5 DEF connect, clearFaults, seedAtBoot, elapse, db, net, vars
    <3> QED BY <2>1, <3>1
  <2> QED BY <2>2, <2>3, <2>4, <2>5
<1>4. \A s \in Sessions : Begun(s)' \subseteq Begun(s)
  BY <1>3 DEF Begun
<1>5. \A s \in Sessions : StartSteady(s)
  BY <1>1, <1>2, <1>4, NoNewCommand, Untouched DEF IdInv, StartSteady
<1> QED BY <1>1, <1>2, <1>3, <1>5, Untouched, SteadyKeeps

-----------------------------------------------------------------------------
(* Losing a link: no start survives it, as no StartTransaction is repeated *)

\* A plug whose link is lost forgets its starts and charges on as before.
LEMMA DroppedSteady ==
  ASSUME ~ResendStart, SessionInv, IdInv, NEW c \in Connectors
  PROVE  /\ \A s \in Sessions : Dropped(plug[c]).begin[s] = "no"
         /\ Dropped(plug[c]).phase # "idle" =>
              /\ plug[c].phase # "idle"
              /\ Dropped(plug[c]).sid = plug[c].sid /\ Dropped(plug[c]).txn = plug[c].txn
<1>1. plug[c] \in Plug /\ \A s \in Sessions : plug[c].begin[s] # "lost"
  BY SessionInvParts DEF WireInv, IdInv
<1> DEFINE b == [s \in Sessions |->
                   IF plug[c].begin[s] = "lost" \/ (ResendStart /\ plug[c].begin[s] = "starting")
                   THEN "lost" ELSE "no"]
           q == [plug[c] EXCEPT !.begin = b]
<1>2. \A s \in Sessions : b[s] = "no"
  BY <1>1
<1>3. Dropped(plug[c]) = IF plug[c].phase \in {"asked", "ending"} THEN Unplugged(q) ELSE q
  BY DEF Dropped
<1> HIDE DEF b
<1>4. /\ q.begin = b /\ q.phase = plug[c].phase
      /\ q.sid = plug[c].sid /\ q.txn = plug[c].txn
      /\ Unplugged(q).begin = b /\ Unplugged(q).phase = "idle"
  BY <1>1 DEF Plug, Unplugged
<1> HIDE DEF q
<1> QED BY <1>2, <1>3, <1>4

\* So with every plug, whichever of them lose their link.
LEMMA DropsSteady ==
  ASSUME ~ResendStart, SessionInv, IdInv,
         \A c \in Connectors : plug'[c] = plug[c] \/ plug'[c] = Dropped(plug[c])
  PROVE  /\ \A c \in Connectors : PlugSteady(c)
         /\ \A s \in Sessions : Begun(s)' \subseteq Begun(s)
BY DroppedSteady DEF IdInv, PlugSteady, Begun

\* disconnect and restart take starts away and hand none on.
LEMMA LinksLost ==
  ASSUME ~ResendStart, SessionInv, IdInv, NEW p \in Slots,
         restart(p) \/ \E ch \in Chargers : disconnect(p, ch)
  PROVE  IdInv'
<1>0. p \in Procs /\ op \in [Procs -> Handler] /\ plug \in [Connectors -> Plug]
  BY SessionInvParts DEF Procs, HandlersInv, WireInv
<1>1. rows' = rows /\ cmds' \subseteq cmds
  BY DEF restart, disconnect
<1>2. \A c \in Connectors : plug'[c] = plug[c] \/ plug'[c] = Dropped(plug[c])
  BY <1>0 DEF restart, disconnect
<1>3. ASSUME NEW q \in Procs
      PROVE  /\ op'[q].kind \in Confirming => op[q].kind \in Confirming /\ op'[q].sid = op[q].sid
             /\ CallSound(op'[q])
  <2>1. CASE restart(p)
    <3>1. op'[q].kind \notin Confirming
      BY <2>1 DEF restart, Idle, Confirming
    <3> QED BY <3>1 DEF CallSound, Confirming, Allocated
  <2>2. ASSUME NEW ch \in Chargers, disconnect(p, ch)
        PROVE  /\ op'[q].kind \in Confirming =>
                    op[q].kind \in Confirming /\ op'[q].sid = op[q].sid
               /\ CallSound(op'[q])
    <3>1. CASE q = p
      <4>1. op'[q].kind = "rxFail"
        BY <1>0, <2>2, <3>1 DEF disconnect, Orphaned, Idle
      <4> QED BY <4>1 DEF CallSound, Confirming, Allocated
    <3>2. CASE q # p
      <4>1. op'[q] = op[q] \/ op'[q] = [op[q] EXCEPT !.con = NoConnector]
        BY <1>0, <2>2, <3>2 DEF disconnect, Orphaned
      <4>2. /\ op'[q].kind = op[q].kind /\ op'[q].sid = op[q].sid
            /\ op'[q].txn = op[q].txn /\ op'[q].docs = op[q].docs
        BY <1>0, <4>1 DEF Handler
      <4>3. CallSound(op[q])
        BY DEF IdInv
      <4> QED BY <4>2, <4>3 DEF CallSound
    <3> QED BY <3>1, <3>2
  <2> QED BY <2>1, <2>2
<1>4. \A s \in Sessions : Calls(s)' \subseteq Calls(s)
  BY <1>3 DEF Calls
<1>5. /\ \A c \in Connectors : PlugSteady(c)
      /\ \A s \in Sessions : Begun(s)' \subseteq Begun(s)
  BY <1>2, DropsSteady
<1>6. \A s \in Sessions : StartSteady(s)
  BY <1>1, <1>4, <1>5, NoNewCommand DEF IdInv, StartSteady
<1> QED BY <1>1, <1>3, <1>5, <1>6, Untouched, SteadyKeeps

-----------------------------------------------------------------------------
(* The steps that hand the right to confirm one session on *)

(* It is enough to look at that session, and at the plugs that charge it.  *)
LEMMA HandedOn ==
  ASSUME IdInv, NEW s \in Sessions,
         \A u \in Sessions \ {s} : RowSteady(u) /\ StartSteady(u),
         OneStart(s)',
         rows'[s].status = "active" => rows'[s].txn # NoTxn,
         rows'[s].status \in {"none", "initiating"} => rows'[s].txn = NoTxn,
         \A q \in Procs : CallSound(op'[q]),
         \A c \in Connectors : \A u \in Sessions : plug'[c].begin[u] # "lost",
         \A c \in Connectors :
           plug'[c].phase # "idle" =>
             \/ /\ plug[c].phase # "idle" /\ plug[c].sid # s
                /\ plug'[c].sid = plug[c].sid /\ plug'[c].txn = plug[c].txn
             \/ /\ plug'[c].sid = s /\ rows'[s].status # "none" /\ ~Pending(s)'
                /\ rows'[s].status = "active" => rows'[s].txn = plug'[c].txn
  PROVE  IdInv'
<1>1. ASSUME NEW u \in Sessions PROVE OneStart(u)'
  <2>1. CASE u = s
    BY <2>1 DEF OneStart, Pending, Commands, Begun, Calls
  <2>2. CASE u # s
    <3>1. u \in Sessions \ {s}
      BY <2>2
    <3> QED BY <3>1, StartSteadyKeeps DEF IdInv
  <2> QED BY <2>1, <2>2
<1>2. ASSUME NEW c \in Connectors PROVE PlugSound(c)'
  <2> SUFFICES ASSUME plug'[c].phase # "idle" PROVE PlugSound(c)'
    BY DEF PlugSound
  <2>1. CASE /\ plug[c].phase # "idle" /\ plug[c].sid # s
             /\ plug'[c].sid = plug[c].sid /\ plug'[c].txn = plug[c].txn
    <3>1. PlugSound(c)
      BY DEF IdInv
    <3>2. PICK u \in Sessions \ {s} : u = plug[c].sid
      BY <2>1, <3>1 DEF PlugSound
    <3>3. /\ rows[u].status # "none" /\ ~Pending(u)
          /\ rows[u].status = "active" => rows[u].txn = plug[c].txn
      BY <2>1, <3>1, <3>2 DEF PlugSound
    <3>4. OneStart(u) /\ RowSteady(u) /\ StartSteady(u)
      BY <3>2 DEF IdInv
    <3>5. ~Pending(u)'
      BY <3>3, <3>4, StartSteadyKeeps
    <3>6. /\ rows'[u].status # "none"
          /\ rows'[u].status = "active" => rows'[u].txn = plug'[c].txn
      BY <2>1, <3>3, <3>4, RowSteadyKeeps
    <3>7. plug'[c].sid = u
      BY <2>1, <3>2
    <3> QED BY <3>5, <3>6, <3>7 DEF PlugSound, Pending, Commands, Begun, Calls
  <2>2. CASE /\ plug'[c].sid = s /\ rows'[s].status # "none" /\ ~Pending(s)'
             /\ rows'[s].status = "active" => rows'[s].txn = plug'[c].txn
    BY <2>2 DEF PlugSound, Pending, Commands, Begun, Calls
  <2> QED BY <2>1, <2>2
<1>3. ASSUME NEW u \in Sessions
      PROVE  /\ rows'[u].status = "active" => rows'[u].txn # NoTxn
             /\ rows'[u].status \in {"none", "initiating"} => rows'[u].txn = NoTxn
  <2>1. CASE u = s
    BY <2>1
  <2>2. CASE u # s
    <3>1. RowSteady(u)
      BY <2>2
    <3> QED BY <3>1, RowSteadyKeeps DEF IdInv
  <2> QED BY <2>1, <2>2
<1>4. \A q \in Procs : CallSound(op[q])'
  BY DEF CallSound
<1> QED BY <1>1, <1>2, <1>3, <1>4 DEF IdInv

(* A start still to be confirmed: nothing charges its session. *)
LEMMA NothingCharges ==
  ASSUME IdInv, NEW s \in Sessions, Pending(s) \/ rows[s].status = "none"
  PROVE  \A c \in Connectors : plug[c].phase # "idle" => plug[c].sid # s
BY DEF IdInv, PlugSound

(* createSession: the row, and its one command. *)
LEMMA Creates ==
  ASSUME SessionInv, IdInv, NEW p \in Slots, createSession(p)
  PROVE  IdInv'
<1>0. /\ p \in Procs /\ op \in [Procs -> Handler] /\ rows \in [Sessions -> Row]
      /\ op[p].kind = "create" /\ op[p].sid \in Sessions
  BY SessionInvParts DEF Procs, HandlersInv, HandlerInv, StoreInv, createSession,
                         SessionKinds, HandlerKinds
<1>1. PICK s \in Sessions : s = op[p].sid
  BY <1>0
<1>2. rows[s].status = "none"
  BY <1>0, <1>1, SessionInvParts DEF FreshInv
<1>3. plug' = plug
  BY DEF createSession
<1>4. CASE Leave(p) /\ UNCHANGED <<rows, cmds>>
  <2>1. op' = [op EXCEPT ![p] = op'[p]] /\ op'[p].kind \notin Confirming
    BY <1>0, <1>4, HandlerLeft, IdleConfirmsNothing
  <2> QED BY <1>0, <1>3, <1>4, <2>1, Untouched, HandlerSteady
<1> DEFINE h == op[p]
           r == NewSession(h.driver, h.con)
           m == [type |-> "start", slot |-> p, sid |-> s, con |-> h.con]
<1>5. CASE /\ rows' = [rows EXCEPT ![s] = r]
           /\ Enter(p, [h EXCEPT !.kind = "awaitStart", !.docs[h.sid] = r])
           /\ cmds' \in {cmds, cmds \cup {m}}
  <2>1. r.status = "initiating" /\ r.txn = NoTxn
    BY DEF NewSession, NoRow
  <2>2. rows'[s].status = "initiating" /\ rows'[s].txn = NoTxn
    BY <1>0, <1>5, <2>1
  <2>3. op' = [op EXCEPT ![p] = op'[p]] /\ op'[p].kind \notin Confirming
    BY <1>0, <1>5 DEF Enter, Handler, Confirming
  <2>4. /\ \A u \in Sessions : Calls(u)' \subseteq Calls(u)
        /\ \A q \in Procs : CallSound(op'[q])
    BY <1>0, <2>3, OtherHandler DEF IdInv
  <2>5. \A u \in Sessions : Begun(u)' \subseteq Begun(u)
    BY <1>3, Untouched
  <2>6. ~Pending(s)
    BY <1>2 DEF IdInv, OneStart
  <2>7. \A u \in Sessions \ {s} : RowSteady(u) /\ StartSteady(u)
    <3>1. \A u \in Sessions \ {s} : Commands(u)' \subseteq Commands(u)
      BY <1>5 DEF Commands
    <3>2. \A u \in Sessions \ {s} : rows'[u] = rows[u]
      BY <1>0, <1>5
    <3> QED BY <2>4, <2>5, <3>1, <3>2 DEF RowSteady, StartSteady, IdInv, OneStart
  <2>8. OneStart(s)'
    <3>1. Calls(s)' = {} /\ Begun(s)' = {} /\ Commands(s)' \subseteq {m}
      BY <1>5, <2>4, <2>5, <2>6 DEF Pending, Commands
    <3> QED BY <2>2, <3>1 DEF OneStart
  <2>9. \A c \in Connectors : plug[c].phase # "idle" => plug[c].sid # s
    BY <1>2, NothingCharges
  <2> QED BY <1>3, <2>2, <2>4, <2>7, <2>8, <2>9, HandedOn DEF IdInv
<1> QED BY <1>1, <1>4, <1>5 DEF createSession

(* chargerAcceptsStart: the command becomes a plug that prepares. *)
LEMMA AcceptsStart ==
  ASSUME SessionInv, IdInv, NEW m \in cmds, chargerAcceptsStart(m)
  PROVE  IdInv'
<1>0. m \in Command /\ plug \in [Connectors -> Plug]
  BY SessionInvParts DEF WireInv
<1>1. PICK s \in Sessions, c \in Connectors : s = m.sid /\ c = m.con
  BY <1>0 DEF Command
<1>2. m \in Commands(s)
  BY <1>1 DEF chargerAcceptsStart, Commands
<1>3. OneStart(s) /\ Begun(s) = {} /\ Calls(s) = {} /\ Commands(s) = {m} /\ Pending(s)
  BY <1>2 DEF IdInv, OneStart, Pending
<1>4. /\ \A u \in Sessions : Calls(u)' \subseteq Calls(u)
      /\ \A q \in Procs : CallSound(op'[q])
      /\ cmds' = cmds \ {m}
  BY AnswerSteady, IdleConfirmsNothing DEF chargerAcceptsStart
<1>5. rows' = rows
  BY DEF chargerAcceptsStart
<1>6. \A d \in Connectors :
        /\ plug'[d].phase = plug[d].phase
        /\ plug'[d].sid = plug[d].sid /\ plug'[d].txn = plug[d].txn
        /\ \A u \in Sessions :
             plug'[d].begin[u] = IF d = c /\ u = s THEN "preparing" ELSE plug[d].begin[u]
  <2> DEFINE b == [plug[c].begin EXCEPT ![s] = "preparing"]
             pl == [plug[c] EXCEPT !.begin = b]
  <2>1. plug' = [plug EXCEPT ![c] = pl]
    BY <1>0, <1>1 DEF chargerAcceptsStart
  <2>2. plug[c] \in Plug
    BY <1>0
  <2>3. plug[c].begin \in [Sessions -> {"no", "preparing", "authorized", "starting", "lost"}]
    BY <2>2 DEF Plug
  <2>4. \A u \in Sessions : b[u] = IF u = s THEN "preparing" ELSE plug[c].begin[u]
    BY <2>3
  <2> HIDE DEF b
  <2>5. /\ pl.begin = b /\ pl.phase = plug[c].phase
        /\ pl.sid = plug[c].sid /\ pl.txn = plug[c].txn
    BY <2>2 DEF Plug
  <2> HIDE DEF pl
  <2> QED BY <1>0, <2>1, <2>4, <2>5
<1>7. \A u \in Sessions \ {s} : RowSteady(u) /\ StartSteady(u)
  <2>1. \A u \in Sessions \ {s} : Begun(u)' \subseteq Begun(u)
    BY <1>6 DEF Begun
  <2> QED BY <1>4, <1>5, <2>1, NoNewCommand, Untouched DEF StartSteady, IdInv
<1>8. OneStart(s)'
  <2>1. Begun(s)' \subseteq {c}
    BY <1>3, <1>6 DEF Begun
  <2>2. Calls(s)' = {} /\ Commands(s)' = {}
    BY <1>3, <1>4 DEF Commands
  <2>3. rows'[s].status # "none" /\ rows'[s].txn = NoTxn
    BY <1>3, <1>5 DEF OneStart
  <2> QED BY <2>1, <2>2, <2>3 DEF OneStart
<1>9. \A d \in Connectors : plug[d].phase # "idle" => plug[d].sid # s
  BY <1>3, NothingCharges
<1> QED BY <1>4, <1>5, <1>6, <1>7, <1>8, <1>9, HandedOn DEF IdInv

(* sendStartTransaction: the plug's preparation becomes a call. *)
LEMMA SendsStart ==
  ASSUME SessionInv, IdInv, NEW p \in Slots, NEW c \in Connectors, NEW s \in Sessions,
         sendStartTransaction(p, c, s)
  PROVE  IdInv'
<1>0. p \in Procs /\ op \in [Procs -> Handler] /\ plug \in [Connectors -> Plug]
  BY SessionInvParts DEF Procs, HandlersInv, WireInv
<1>1. plug[c].begin[s] = "authorized"
  BY DEF sendStartTransaction, IdInv
<1>2. c \in Begun(s)
  BY <1>1 DEF Begun
<1>3. OneStart(s) /\ Begun(s) = {c} /\ Calls(s) = {} /\ Commands(s) = {} /\ Pending(s)
  BY <1>2 DEF IdInv, OneStart, Pending
<1>4. rows' = rows /\ cmds' = cmds
  BY DEF sendStartTransaction, db
<1>5. \A d \in Connectors :
        /\ plug'[d].phase = plug[d].phase
        /\ plug'[d].sid = plug[d].sid /\ plug'[d].txn = plug[d].txn
        /\ \A u \in Sessions :
             plug'[d].begin[u] = IF d = c /\ u = s THEN "starting" ELSE plug[d].begin[u]
  <2>1. PICK wh : plug' = [plug EXCEPT ![c].begin[s] = "starting",
                                       ![c].base = wh, ![c].meter = wh]
    BY <1>1 DEF sendStartTransaction
  <2>2. plug[c] \in Plug
    BY <1>0
  <2>3. plug[c].begin \in [Sessions -> {"no", "preparing", "authorized", "starting", "lost"}]
    BY <2>2 DEF Plug
  <2> DEFINE b == [plug[c].begin EXCEPT ![s] = "starting"]
             pl == [plug[c] EXCEPT !.begin = b, !.base = wh, !.meter = wh]
  <2>4. plug' = [plug EXCEPT ![c] = pl]
    BY <1>0, <2>1, <2>2 DEF Plug
  <2>5. \A u \in Sessions : b[u] = IF u = s THEN "starting" ELSE plug[c].begin[u]
    BY <2>3
  <2> HIDE DEF b
  <2>6. /\ pl.begin = b /\ pl.phase = plug[c].phase
        /\ pl.sid = plug[c].sid /\ pl.txn = plug[c].txn
    BY <2>2 DEF Plug
  <2> HIDE DEF pl
  <2> QED BY <1>0, <2>4, <2>5, <2>6
<1>6. /\ op' = [op EXCEPT ![p] = op'[p]]
      /\ op'[p].kind = "rxStart" /\ op'[p].sid = s
  BY <1>0 DEF sendStartTransaction, Enter, Idle
<1>7. \A q \in Procs : CallSound(op'[q])
  <2>1. CallSound(op'[p])
    BY <1>6 DEF CallSound, Allocated
  <2>2. \A q \in Procs \ {p} : op'[q] = op[q]
    BY <1>0, <1>6
  <2> QED BY <2>1, <2>2 DEF IdInv
<1>8. /\ \A u \in Sessions \ {s} : Calls(u)' \subseteq Calls(u)
      /\ Calls(s)' \subseteq {p}
  BY <1>0, <1>3, <1>6 DEF Calls, Confirming
<1>9. \A u \in Sessions \ {s} : RowSteady(u) /\ StartSteady(u)
  <2>1. \A u \in Sessions \ {s} : Begun(u)' \subseteq Begun(u)
    BY <1>5 DEF Begun
  <2> QED BY <1>4, <1>8, <2>1, NoNewCommand, Untouched DEF StartSteady, IdInv
<1>10. OneStart(s)'
  <2>1. Begun(s)' = {}
    BY <1>3, <1>5 DEF Begun
  <2>2. Commands(s)' = {}
    BY <1>3, <1>4 DEF Commands
  <2>3. rows'[s].status # "none" /\ rows'[s].txn = NoTxn
    BY <1>3, <1>4 DEF OneStart
  <2> QED BY <1>8, <2>1, <2>2, <2>3 DEF OneStart
<1>11. \A d \in Connectors : plug[d].phase # "idle" => plug[d].sid # s
  BY <1>3, NothingCharges
<1> QED BY <1>4, <1>5, <1>7, <1>9, <1>10, <1>11, HandedOn DEF IdInv

-----------------------------------------------------------------------------
(* StartTransaction itself *)

(* What a handler of StartTransaction stands on. *)
LEMMA Confirms ==
  ASSUME SessionInv, IdInv, NEW p \in Procs, op[p].kind \in Confirming,
         NEW s \in Sessions, s = op[p].sid
  PROVE  /\ Calls(s) = {p} /\ Commands(s) = {} /\ Begun(s) = {}
         /\ rows[s].status # "none"
         /\ \A c \in Connectors : plug[c].phase # "idle" => plug[c].sid # s
<1>1. p \in Calls(s)
  BY DEF Calls
<1>2. OneStart(s) /\ Pending(s)
  BY <1>1 DEF IdInv, Pending
<1> QED BY <1>1, <1>2, NothingCharges DEF OneStart

(* What an answer may do to the plugs: nothing, or end the start it answers *)
(* and perhaps begin to charge under the id it carries.                     *)
Replied(c, s, txn) ==
  \/ plug' = plug
  \/ \A d \in Connectors :
       /\ \A u \in Sessions :
            plug'[d].begin[u] = IF d = c /\ u = s THEN "no" ELSE plug[d].begin[u]
       /\ \/ /\ plug'[d].phase = plug[d].phase
             /\ plug'[d].sid = plug[d].sid /\ plug'[d].txn = plug[d].txn
          \/ d = c /\ plug'[d].sid = s /\ plug'[d].txn = txn

\* Every answer to a StartTransaction is of the kind just described.
LEMMA RepliesAreSuch ==
  ASSUME SessionInv, NEW p \in Procs, NEW s \in Sessions, s = op[p].sid, NEW txn,
         \/ \E accepted \in BOOLEAN : ReplyStart(op[p], txn, accepted)
         \/ ReplyStartError(op[p])
  PROVE  Replied(op[p].con, s, txn)
<1>0. plug \in [Connectors -> Plug] /\ op[p] \in Handler
  BY SessionInvParts DEF WireInv, HandlersInv
<1>1. CASE plug' = plug
  BY <1>1 DEF Replied
<1>2. CASE op[p].con \in Connectors
  <2>1. PICK c \in Connectors : c = op[p].con
    BY <1>2
  <2>2. plug[c] \in Plug
    BY <1>0
  <2>3. plug[c].begin \in [Sessions -> {"no", "preparing", "authorized", "starting", "lost"}]
    BY <2>2 DEF Plug
  <2> DEFINE b == [plug[c].begin EXCEPT ![s] = "no"]
             ended == [plug[c] EXCEPT !.begin = b]
             begun == [plug[c] EXCEPT !.begin = b, !.txn = txn, !.sid = s, !.phase = "charging"]
  <2>4. \/ plug' = plug
        \/ plug' = [plug EXCEPT ![c] = ended]
        \/ plug' = [plug EXCEPT ![c] = begun]
    <3>1. CASE \E accepted \in BOOLEAN : ReplyStart(op[p], txn, accepted)
      BY <1>0, <2>1, <2>2, <3>1 DEF ReplyStart, Plug
    <3>2. CASE ReplyStartError(op[p])
      BY <1>0, <2>1, <2>2, <3>2 DEF ReplyStartError, Plug
    <3> QED BY <3>1, <3>2
  <2>5. \A u \in Sessions : b[u] = IF u = s THEN "no" ELSE plug[c].begin[u]
    BY <2>3
  <2> HIDE DEF b
  <2>6. /\ ended.begin = b /\ ended.phase = plug[c].phase
        /\ ended.sid = plug[c].sid /\ ended.txn = plug[c].txn
        /\ begun.begin = b /\ begun.sid = s /\ begun.txn = txn
    BY <2>2 DEF Plug
  <2> HIDE DEF ended, begun
  <2> QED BY <1>0, <2>1, <2>4, <2>5, <2>6 DEF Replied
<1>3. CASE op[p].con = NoConnector
  BY <1>1, <1>3 DEF ReplyStart, ReplyStartError
<1> QED BY <1>0, <1>2, <1>3 DEF Handler

(* A StartTransaction that is answered uses its session's start up: the row *)
(* it leaves behind, if active, has the id the plug is given.               *)
LEMMA StartUsedUp ==
  ASSUME SessionInv, IdInv, NEW p \in Procs, op[p].kind \in Confirming,
         NEW s \in Sessions, s = op[p].sid, NEW txn,
         Leave(p), cmds' = cmds, Replied(op[p].con, s, txn),
         \A u \in Sessions \ {s} : rows'[u] = rows[u],
         rows'[s].status # "none",
         rows'[s].status = "active" => rows'[s].txn # NoTxn,
         rows'[s].status \in {"none", "initiating"} => rows'[s].txn = NoTxn,
         plug' # plug => (rows'[s].status = "active" => rows'[s].txn = txn)
  PROVE  IdInv'
<1>0. op \in [Procs -> Handler]
  BY SessionInvParts DEF HandlersInv
<1>1. /\ Calls(s) = {p} /\ Commands(s) = {} /\ Begun(s) = {}
      /\ \A c \in Connectors : plug[c].phase # "idle" => plug[c].sid # s
  BY Confirms
<1>2. op' = [op EXCEPT ![p] = op'[p]] /\ op'[p].kind \notin Confirming
  BY HandlerLeft, IdleConfirmsNothing
<1>3. /\ \A u \in Sessions : Calls(u)' \subseteq Calls(u)
      /\ \A q \in Procs : CallSound(op'[q])
  BY <1>0, <1>2, OtherHandler DEF IdInv
<1>4. \A d \in Connectors, u \in Sessions :
        plug'[d].begin[u] = plug[d].begin[u] \/ plug'[d].begin[u] = "no"
  BY DEF Replied
<1>5. \A u \in Sessions : Begun(u)' \subseteq Begun(u)
  BY <1>4 DEF Begun
<1>6. \A u \in Sessions \ {s} : RowSteady(u) /\ StartSteady(u)
  <2>1. \A m \in cmds' : m.type = "start" => m \in cmds
    OBVIOUS
  <2> QED BY <1>3, <1>5, <2>1, NoNewCommand DEF StartSteady, RowSteady, IdInv
<1>7. ~Pending(s)'
  <2>1. Calls(s)' = {}
    BY <1>0, <1>1, <1>2, <1>3 DEF Calls
  <2>2. Commands(s)' = {} /\ Begun(s)' = {}
    BY <1>1, <1>5 DEF Commands
  <2> QED BY <2>1, <2>2 DEF Pending
<1>8. OneStart(s)'
  BY <1>7 DEF Pending, OneStart
<1>9. \A c \in Connectors :
        plug'[c].phase # "idle" =>
          \/ /\ plug[c].phase # "idle" /\ plug[c].sid # s
             /\ plug'[c].sid = plug[c].sid /\ plug'[c].txn = plug[c].txn
          \/ /\ plug'[c].sid = s /\ rows'[s].status # "none" /\ ~Pending(s)'
             /\ rows'[s].status = "active" => rows'[s].txn = plug'[c].txn
  <2>1. CASE plug' = plug
    BY <1>1, <2>1
  <2>2. CASE plug' # plug
    BY <1>1, <1>7, <2>2 DEF Replied
  <2> QED BY <2>1, <2>2
<1>10. \A c \in Connectors : \A u \in Sessions : plug'[c].begin[u] # "lost"
  BY <1>4 DEF IdInv
<1> QED BY <1>3, <1>6, <1>8, <1>9, <1>10, HandedOn

(* A StartTransaction that goes on to its next step, with an id. *)
LEMMA StartGoesOn ==
  ASSUME SessionInv, IdInv, NEW p \in Procs, op[p].kind \in Confirming,
         op' = [op EXCEPT ![p] = op'[p]],
         op'[p].sid = op[p].sid, CallSound(op'[p]),
         rows' = rows, plug' = plug, cmds' = cmds
  PROVE  IdInv'
<1>0. op \in [Procs -> Handler]
  BY SessionInvParts DEF HandlersInv
<1>1. \A q \in Procs \ {p} : op'[q] = op[q]
  BY <1>0
<1>2. \A s \in Sessions : Calls(s)' \subseteq Calls(s)
  BY <1>1 DEF Calls
<1>3. \A q \in Procs : CallSound(op'[q])
  BY <1>1 DEF IdInv
<1>4. \A s \in Sessions : StartSteady(s)
  BY <1>2, NoNewCommand, Untouched DEF IdInv, StartSteady
<1> QED BY <1>3, <1>4, Untouched, SteadyKeeps

(* The id a handler allocates is not the absent one. *)
LEMMA AllocatedIdIsSome ==
  ASSUME NEW n \in Nat
  PROVE  allocateTransactionId(n) # NoTxn
BY DEF allocateTransactionId, NoTxn

\* onStartTransaction passes the right on to the confirmation, or drops it.
LEMMA LooksUpTag ==
  ASSUME SessionInv, IdInv, NEW p \in Slots, onStartTransaction(p)
  PROVE  IdInv'
<1>0. /\ p \in Procs /\ op \in [Procs -> Handler] /\ nextTxn \in Nat
      /\ op[p].kind = "rxStart" /\ op[p].sid \in Sessions
  BY SessionInvParts DEF Procs, HandlersInv, HandlerInv, WireInv, onStartTransaction,
                         SessionKinds, HandlerKinds
<1>1. PICK s \in Sessions : s = op[p].sid
  BY <1>0
<1>2. op[p].kind \in Confirming
  BY <1>0 DEF Confirming
<1>3. rows' = rows /\ cmds' = cmds
  BY DEF onStartTransaction
<1>4. /\ rows[s].status # "none"
      /\ rows[s].status = "active" => rows[s].txn # NoTxn
      /\ rows[s].status = "initiating" => rows[s].txn = NoTxn
  BY <1>0, <1>1, <1>2, Confirms DEF IdInv
<1>5. CASE /\ rows[s].status = "active"
           /\ ReplyStart(op[p], rows[s].txn, TRUE) /\ Leave(p)
  <2>1. Replied(op[p].con, s, rows[s].txn)
    BY <1>0, <1>1, <1>5, RepliesAreSuch
  <2> QED BY <1>0, <1>1, <1>2, <1>3, <1>4, <1>5, <2>1, StartUsedUp
<1>6. CASE /\ rows[s].status # "active"
           /\ ReplyStart(op[p], nextTxn', FALSE) /\ Leave(p)
  <2>1. Replied(op[p].con, s, nextTxn')
    BY <1>0, <1>1, <1>6, RepliesAreSuch
  <2> QED BY <1>0, <1>1, <1>2, <1>3, <1>4, <1>6, <2>1, StartUsedUp
<1>7. CASE /\ rows[s].status = "initiating"
           /\ nextTxn' = allocateTransactionId(nextTxn)
           /\ Enter(p, [op[p] EXCEPT !.kind = "confirm", !.txn = nextTxn', !.docs[s] = rows[s]])
           /\ plug' = plug
  <2>1. op[p] \in Handler
    BY <1>0
  <2> DEFINE docs == [op[p].docs EXCEPT ![s] = rows[s]]
  <2>2. docs[s] = rows[s]
    BY <2>1 DEF Handler
  <2> HIDE DEF docs
  <2>3. op' = [op EXCEPT ![p] = [op[p] EXCEPT !.kind = "confirm", !.txn = nextTxn', !.docs = docs]]
    BY <1>7, <2>1 DEF Enter, docs
  <2>4. /\ op' = [op EXCEPT ![p] = op'[p]]
        /\ op'[p].sid = s /\ op'[p].docs = docs /\ op'[p].txn = nextTxn'
    BY <1>0, <1>1, <2>1, <2>3 DEF Handler
  <2>5. nextTxn' # NoTxn
    BY <1>0, <1>7, AllocatedIdIsSome
  <2>6. CallSound(op'[p])
    BY <1>4, <1>7, <2>2, <2>4, <2>5 DEF CallSound
  <2> QED BY <1>0, <1>1, <1>2, <1>3, <1>7, <2>4, <2>6, StartGoesOn
<1> QED BY <1>1, <1>4, <1>5, <1>6, <1>7 DEF onStartTransaction

(* What the confirmation saves: the id, and that the session is active. *)
LEMMA SavedConfirmation ==
  ASSUME NEW s \in Sessions, NEW old \in Row, old.status = "initiating", old.txn = NoTxn,
         NEW txn \in Nat, txn # NoTxn, NEW wh \in 0..MaxMeter
  PROVE  LET r == Saved(s, old, Confirmed(old, txn, wh))
         IN  r.status = "active" /\ r.txn = txn
<1> DEFINE new == Confirmed(old, txn, wh)
<1>1. new \in Row
  <2>1. new \in {MarkedFailed(old, "none"), Stopping(old), Confirmed(old, txn, wh),
                 Metered(old, wh), Finished(old, wh), Failed(old, "none")}
    OBVIOUS
  <2>2. "none" \in STOP_REASONS
    BY DEF STOP_REASONS
  <2> QED BY <2>1, <2>2, CopyEdits
<1>2. new.status = "active" /\ new.txn = txn
  BY DEF Confirmed, Row
<1> HIDE DEF new
<1>3. computeAmount(new).status = "active" /\ computeAmount(new).txn = txn
  BY <1>1, <1>2, HookKeepsId
<1>4. Saved(s, old, new).status = "active" /\ Saved(s, old, new).txn = txn
  BY <1>3 DEF Saved, Merge, Keep
<1> QED BY <1>4 DEF new

\* saveConfirmed uses the right up: the row has its id, and the plug begins with it.
LEMMA SavesConfirmation ==
  ASSUME SessionInv, IdInv, NEW p \in Slots, saveConfirmed(p)
  PROVE  IdInv'
<1> DEFINE h == op[p]
<1>0. /\ p \in Procs /\ op \in [Procs -> Handler] /\ rows \in [Sessions -> Row]
      /\ h.kind \in Allocated /\ h.kind \in Confirming
      /\ h \in Handler /\ h.sid \in Sessions
  BY SessionInvParts DEF Procs, HandlersInv, HandlerInv, StoreInv, saveConfirmed, Allocated,
                         Confirming, SessionKinds, HandlerKinds
<1>1. PICK s \in Sessions : s = h.sid
  BY <1>0
<1>2. /\ h.txn # NoTxn /\ h.txn \in Nat /\ h.wh \in 0..MaxMeter
      /\ h.docs[s] \in Row /\ h.docs[s].status = "initiating" /\ h.docs[s].txn = NoTxn
  BY <1>0, <1>1 DEF IdInv, CallSound, Handler
<1>3. cmds' = cmds
  BY DEF saveConfirmed
<1>4. /\ rows[s].status # "none"
      /\ rows[s].status = "active" => rows[s].txn # NoTxn
      /\ rows[s].status = "initiating" => rows[s].txn = NoTxn
  BY <1>0, <1>1, Confirms DEF IdInv
<1> DEFINE old == h.docs[s]
           new == Confirmed(old, h.txn, h.wh)
           r == Saved(s, old, new)
<1>5. r.status = "active" /\ r.txn = h.txn
  BY <1>2, SavedConfirmation
<1>6. Save(s, old, new)
  BY <1>1 DEF saveConfirmed
<1>7. CASE Admitted(s, old, new) /\ ReplyStart(h, h.txn, TRUE) /\ Leave(p)
  <2>1. rows' = [rows EXCEPT ![s] = r]
    BY <1>6, <1>7 DEF Save
  <2> HIDE DEF r
  <2>2. /\ rows'[s].status = "active" /\ rows'[s].txn = h.txn
        /\ \A u \in Sessions \ {s} : rows'[u] = rows[u]
    BY <1>0, <1>5, <2>1
  <2>3. Replied(h.con, s, h.txn)
    BY <1>0, <1>1, <1>7, RepliesAreSuch
  <2> QED BY <1>0, <1>1, <1>2, <1>3, <1>7, <2>2, <2>3, StartUsedUp
<1>8. CASE ~Admitted(s, old, new) /\ Goto(p, "reseed") /\ plug' = plug
  <2>1. rows' = rows
    BY <1>6, <1>8 DEF Save
  <2>2. /\ op' = [op EXCEPT ![p] = op'[p]]
        /\ op'[p].sid = s /\ op'[p].docs = h.docs /\ op'[p].txn = h.txn
    BY <1>0, <1>1, <1>8 DEF Goto, Handler
  <2>3. CallSound(op'[p])
    BY <1>2, <2>2 DEF CallSound
  <2> QED BY <1>0, <1>1, <1>3, <1>8, <2>1, <2>2, <2>3, StartGoesOn
<1>9. CASE ~Admitted(s, old, new) /\ ReplyStartError(h) /\ Leave(p)
  <2>1. rows' = rows
    BY <1>6, <1>9 DEF Save
  <2>2. Replied(h.con, s, rows[s].txn)
    BY <1>0, <1>1, <1>9, RepliesAreSuch
  <2> QED BY <1>0, <1>1, <1>3, <1>4, <1>9, <2>1, <2>2, StartUsedUp
<1> QED BY <1>1, <1>7, <1>8, <1>9 DEF saveConfirmed

\* reseedTransactionIds keeps the right where it is.
LEMMA Reseeds ==
  ASSUME SessionInv, IdInv, NEW p \in Slots, reseedTransactionIds(p)
  PROVE  IdInv'
<1>0. /\ p \in Procs /\ op \in [Procs -> Handler] /\ nextTxn \in Nat
      /\ op[p].kind = "reseed" /\ op[p].sid \in Sessions
  BY SessionInvParts DEF Procs, HandlersInv, HandlerInv, WireInv, reseedTransactionIds,
                         SessionKinds, HandlerKinds
<1>1. op[p].kind \in Confirming /\ op[p].kind \in Allocated
  BY <1>0 DEF Confirming, Allocated
<1>2. rows' = rows /\ plug' = plug /\ cmds' = cmds
  BY DEF reseedTransactionIds, db, net
<1>3. nextTxn' # NoTxn
  <2>1. PICK highest \in highestTransactionId :
          nextTxn' = allocateTransactionId(seedTransactionId(highest))
    BY DEF reseedTransactionIds
  <2>2. seedTransactionId(highest) \in Nat
    BY <1>0, <2>1, HighestIsNatural, SessionInvParts DEF seedTransactionId
  <2> QED BY <2>1, <2>2, AllocatedIdIsSome
<1>4. /\ op' = [op EXCEPT ![p] = op'[p]]
      /\ op'[p].sid = op[p].sid /\ op'[p].docs = op[p].docs /\ op'[p].txn = nextTxn'
  BY <1>0 DEF reseedTransactionIds, Enter, Handler
<1>5. CallSound(op'[p])
  BY <1>0, <1>1, <1>3, <1>4 DEF IdInv, CallSound
<1> QED BY <1>0, <1>1, <1>2, <1>4, <1>5, StartGoesOn

-----------------------------------------------------------------------------
(* The invariant of the ids, and what it is for *)

\* At the start nothing charges and nothing is under way.
LEMMA IdInvInit == Init => IdInv
<1> SUFFICES ASSUME Init PROVE IdInv
  OBVIOUS
<1>1. \A c \in Connectors : /\ plug[c].phase = "idle"
                            /\ \A s \in Sessions : plug[c].begin[s] = "no"
  BY DEF Init
<1>2. \A p \in Procs : op[p].kind = "idle"
  BY DEF Init, Idle
<1>3. \A s \in Sessions : Commands(s) = {} /\ Begun(s) = {} /\ Calls(s) = {}
  BY <1>1, <1>2 DEF Init, Commands, Begun, Calls, Confirming
<1>4. \A s \in Sessions : OneStart(s)
  BY <1>3 DEF OneStart, Pending
<1>5. \A p \in Procs : CallSound(op[p])
  BY <1>2 DEF CallSound, Allocated
<1>6. \A c \in Connectors : PlugSound(c)
  BY <1>1 DEF PlugSound
<1>7. \A s \in Sessions : rows[s].status = "none" /\ rows[s].txn = NoTxn
  BY DEF Init, NoRow
<1> QED BY <1>1, <1>4, <1>5, <1>6, <1>7 DEF IdInv

\* Every step keeps the invariant.
LEMMA IdInvNext ==
  ASSUME ~ResendStart, SessionInv, IdInv, [Next]_vars
  PROVE  IdInv'
<1>0. \A p \in Slots : p \in Procs
  BY DEF Procs
<1>1. ASSUME NEW p \in Slots, HandlerStep(p) PROVE IdInv'
  <2>1. CASE \/ requestStop(p) \/ onMeterValues(p) \/ createReading(p)
             \/ failOpenSessions(p) \/ releaseConnectors(p)
    BY <2>1, LookingSteps
  <2>2. CASE \/ markFailed(p) \/ saveStopping(p) \/ saveStopOffline(p) \/ saveMeter(p)
             \/ \E s \in Sessions : failSessions(p, s)
    BY <1>0, <2>2, OtherSaves
  <2>3. CASE onStopTransaction(p) \/ saveFinished(p)
    BY <2>3, StopTransactions
  <2>4. CASE createSession(p)        BY <2>4, Creates
  <2>5. CASE onStartTransaction(p)   BY <2>5, LooksUpTag
  <2>6. CASE saveConfirmed(p)        BY <2>6, SavesConfirmation
  <2>7. CASE reseedTransactionIds(p) BY <2>7, Reseeds
  <2>8. CASE commandTimeout(p)       BY <2>8, CommandsGivenUp
  <2> QED BY <1>1, <2>1, <2>2, <2>3, <2>4, <2>5, <2>6, <2>7, <2>8 DEF HandlerStep
<1>2. ASSUME NEW p \in Slots, PersonStep(p) PROVE IdInv'
  BY <1>2, LookingSteps
<1>3. ASSUME NEW p \in Slots, ChargerCall(p) PROVE IdInv'
  <2>1. CASE \E c \in Connectors, s \in Sessions : sendStartTransaction(p, c, s)
    BY <2>1, SendsStart
  <2>2. CASE \E c \in Connectors, wh \in 0..MaxMeter : sendMeterValues(p, c, wh)
    BY <2>2, LookingSteps
  <2>3. CASE \/ \E c \in Connectors : sendStopTransaction(p, c) \/ faultConnector(p, c)
             \/ \E ch \in Chargers : faultChargePoint(p, ch)
    BY <2>3, StopsAndFaults
  <2>4. CASE \E ch \in Chargers : disconnect(p, ch)
    BY <2>4, LinksLost
  <2> QED BY <1>3, <2>1, <2>2, <2>3, <2>4 DEF ChargerCall
<1>4. ASSUME NEW p \in Slots, restart(p) PROVE IdInv'
  BY <1>4, LinksLost
<1>5. CASE SweeperStep
  <2>1. CASE sweepUnconfirmedSessions
    <3>1. Sweeper \in Procs
      BY DEF Procs
    <3>2. op' = [op EXCEPT ![Sweeper] = op'[Sweeper]] /\ op'[Sweeper].kind \notin Confirming
      BY <2>1, <3>1, SessionInvParts DEF sweepUnconfirmedSessions, Enter, Idle, Confirming,
                                         HandlersInv
    <3>3. rows' = rows /\ plug' = plug /\ cmds' = cmds
      BY <2>1 DEF sweepUnconfirmedSessions, db, net
    <3> QED BY <3>1, <3>2, <3>3, Untouched, HandlerSteady
  <2>2. CASE \E s \in Sessions : saveSwept(s)
    <3>1. Sweeper \in Procs
      BY DEF Procs
    <3> QED BY <2>2, <3>1, OtherSaves
  <2> QED BY <1>5, <2>1, <2>2 DEF SweeperStep
<1>6. CASE ChargerStep
  BY <1>6, CommandsAnswered, AcceptsStart, LocalSteps DEF ChargerStep
<1>7. CASE seedAtBoot \/ (\E s \in Sessions : elapse(s)) \/ UNCHANGED vars
  BY <1>7, LocalSteps
<1> QED BY <1>1, <1>2, <1>3, <1>4, <1>5, <1>6, <1>7 DEF Next

(* A confirmed session is stored under the id its charge point charges     *)
(* with, whichever stale copies are saved over the row and whenever links  *)
(* and the backend go down, for charge points that do not repeat a         *)
(* StartTransaction (onStartTransaction).                                  *)
THEOREM IdsStable ==
  ASSUME ~ResendStart
  PROVE  Spec => []ConfirmedIdStable
<1>1. Init => IdInv
  BY IdInvInit
<1>2. SessionInv /\ IdInv /\ [Next]_vars => IdInv'
  BY IdInvNext
<1>3. IdInv => ConfirmedIdStable
  BY DEF IdInv, PlugSound, ConfirmedIdStable
<1> QED BY <1>1, <1>2, <1>3, Invariance, PTL DEF Spec

-----------------------------------------------------------------------------
(* Energy and price *)

(* A product of naturals grows with its factor. *)
LEMMA ProductGrows ==
  ASSUME NEW e \in Nat, NEW d \in Nat, e <= d, NEW p \in Nat
  PROVE  e * p <= d * p
<1>1. PICK k \in Nat : d = e + k
  <2>1. d - e \in Nat /\ d = e + (d - e)
    OBVIOUS
  <2> QED BY <2>1
<1>2. d * p = e * p + k * p /\ k * p \in Nat /\ e * p \in Nat
  BY <1>1
<1> QED BY <1>2

\* More energy never costs less.
LEMMA PriceGrows ==
  ASSUME NEW e \in Nat, NEW d \in Nat, e <= d, NEW p \in Nat
  PROVE  /\ calculateAmountPaise(e, p) \in Nat
         /\ calculateAmountPaise(e, p) <= calculateAmountPaise(d, p)
<1> DEFINE x == e * p
           y == d * p
<1>1. x \in Nat /\ y \in Nat /\ x <= y
  BY ProductGrows
<1>2. (2 * e * p + 1000) = 2 * x + 1000 /\ (2 * d * p + 1000) = 2 * y + 1000
  OBVIOUS
<1> HIDE DEF x, y
<1>3. /\ (2 * x + 1000) \div 2000 \in Nat
      /\ (2 * x + 1000) \div 2000 <= (2 * y + 1000) \div 2000
      /\ 0 <= (2 * y + 1000) \div 2000
  BY <1>1
<1>4. /\ calculateAmountPaise(e, p) = IF e <= 0 \/ p <= 0 THEN 0 ELSE (2 * x + 1000) \div 2000
      /\ calculateAmountPaise(d, p) = IF d <= 0 \/ p <= 0 THEN 0 ELSE (2 * y + 1000) \div 2000
  BY <1>2 DEF calculateAmountPaise
<1> QED BY <1>3, <1>4

\* A row of session s, or a copy of it: without an id it has no readings; with one, it
\* is the row's id and opening reading, and no more energy than was delivered.
WithinMeter(s, r) ==
  /\ r.txn = NoTxn => r.start = Null /\ r.last = Null /\ r.energy = 0
  /\ r.txn # NoTxn =>
       /\ r.txn = rows[s].txn /\ r.start = rows[s].start /\ r.start # Null
       /\ r.last # Null => r.last - r.start <= delivered[s]
  /\ r.energy <= delivered[s]

\* The stored row, and its price.
RowBilled(s) ==
  /\ WithinMeter(s, rows[s])
  /\ rows[s].amount # Null =>
       rows[s].amount <= calculateAmountPaise(delivered[s], PricePerKwh)

(* Two readings that are no further apart than what was delivered.         *)
LEMMA ConsumedWithin ==
  ASSUME NEW a \in Meters, NEW b \in Meters, NEW d \in Nat,
         a # Null /\ b # Null => b - a <= d
  PROVE  consumedWh(a, b) <= d
<1>1. a \in Int /\ b \in Int
  BY ConstantsAssumption DEF Meters, Null
<1> QED BY <1>1 DEF consumedWh

(* What a handler does to its copy keeps it within the meter, if a reading *)
(* it writes is no further above the opening one than what was delivered.  *)
LEMMA EditsWithinMeter ==
  ASSUME NEW s \in Sessions, delivered[s] \in Nat, NEW r \in Row, WithinMeter(s, r),
         NEW w \in 0..MaxMeter, NEW y \in STOP_REASONS, NEW n,
         \/ n \in {MarkedFailed(r, y), Stopping(r), Failed(r, y)}
         \/ /\ n \in {Metered(r, w), Finished(r, w)}
            /\ r.txn # NoTxn /\ w - r.start <= delivered[s]
  PROVE  /\ n \in Row /\ n.amount = r.amount
         /\ n.txn = r.txn /\ n.start = r.start
         /\ WithinMeter(s, n)
<1>1. n \in Row /\ n.amount = r.amount /\ n.txn = r.txn
  BY CopyEdits, EditsKeepId
<1>2. r.start \in Meters /\ r.last \in Meters /\ w \in Meters /\ Null \notin 0..MaxMeter
  BY ConstantsAssumption DEF Row, Meters, Null
<1>3. consumedWh(r.start, r.last) <= delivered[s]
  BY <1>2, ConsumedWithin DEF WithinMeter
<1>4. r.txn = NoTxn => consumedWh(r.start, r.last) = 0
  BY DEF WithinMeter, consumedWh
<1>5. CASE n \in {MarkedFailed(r, y), Stopping(r)}
  <2>1. n.start = r.start /\ n.last = r.last /\ n.energy = r.energy
    BY <1>5 DEF MarkedFailed, Stopping, Row
  <2> QED BY <1>1, <2>1 DEF WithinMeter
<1>6. CASE n = Failed(r, y)
  <2>1. /\ n.start = r.start /\ n.last = r.last
        /\ n.energy = consumedWh(r.start, r.last)
    BY <1>6 DEF Failed, Row
  <2> QED BY <1>1, <1>3, <1>4, <2>1 DEF WithinMeter
<1>7. CASE n \in {Metered(r, w), Finished(r, w)} /\ r.txn # NoTxn /\ w - r.start <= delivered[s]
  <2>1. /\ n.start = r.start /\ n.last = w
        /\ n.energy = consumedWh(r.start, w)
    BY <1>7 DEF Metered, Finished, Row
  <2>2. consumedWh(r.start, w) <= delivered[s]
    BY <1>2, <1>7, ConsumedWithin
  <2> QED BY <1>1, <1>7, <2>1, <2>2 DEF WithinMeter
<1> QED BY <1>5, <1>6, <1>7

(* The pricing hook writes a price, and that of the copy's energy.         *)
LEMMA HookKeepsEnergy ==
  ASSUME NEW r \in Row
  PROVE  /\ computeAmount(r).txn = r.txn /\ computeAmount(r).start = r.start
         /\ computeAmount(r).last = r.last /\ computeAmount(r).energy = r.energy
         /\ \/ computeAmount(r).amount = r.amount
            \/ computeAmount(r).amount = calculateAmountPaise(r.energy, PricePerKwh)
<1> DEFINE a == calculateAmountPaise(r.energy, PricePerKwh)
           b == r.paid \/ a = 0
<1>1. computeAmount(r) = IF IsTerminal(r) /\ r.amount = Null
                         THEN [r EXCEPT !.amount = a, !.paid = b] ELSE r
  BY DEF computeAmount
<1> HIDE DEF a, b
<1>2. /\ computeAmount(r).txn = r.txn /\ computeAmount(r).start = r.start
      /\ computeAmount(r).last = r.last /\ computeAmount(r).energy = r.energy
      /\ computeAmount(r).amount = r.amount \/ computeAmount(r).amount = a
  BY <1>1 DEF Row
<1>3. a = calculateAmountPaise(r.energy, PricePerKwh)
  BY DEF a
<1> QED BY <1>2, <1>3

\* A save of an edited copy that stayed within the meter leaves a row within the meter.
LEMMA SaveBilled ==
  ASSUME SessionInv, \A u \in Sessions : RowBilled(u),
         NEW s \in Sessions, NEW old \in Row, NEW new \in Row,
         WithinMeter(s, old), WithinMeter(s, new),
         new.txn = old.txn, new.start = old.start, new.amount = old.amount,
         Save(s, old, new), UNCHANGED delivered
  PROVE  \A u \in Sessions : /\ rows'[u].txn = rows[u].txn /\ rows'[u].start = rows[u].start
                             /\ RowBilled(u)'
<1> DEFINE r == Saved(s, old, new)
           c == computeAmount(new)
<1>0. /\ rows \in [Sessions -> Row] /\ delivered \in [Sessions -> Nat]
      /\ PricePerKwh \in Nat /\ new.energy \in Nat
  BY SessionInvParts, ConstantsAssumption DEF StoreInv, WireInv, Row
<1>1. /\ c.txn = new.txn /\ c.start = new.start /\ c.last = new.last /\ c.energy = new.energy
      /\ \/ c.amount = new.amount
         \/ c.amount = calculateAmountPaise(new.energy, PricePerKwh)
  BY HookKeepsEnergy
<1>2. c.amount # old.amount =>
        c.amount <= calculateAmountPaise(delivered[s], PricePerKwh)
  BY <1>0, <1>1, PriceGrows DEF WithinMeter
<1> HIDE DEF c
<1>3. /\ r.txn = rows[s].txn /\ r.start = rows[s].start
      /\ r.last = rows[s].last \/ r.last = new.last
      /\ r.energy = rows[s].energy \/ r.energy = new.energy
      /\ r.amount = rows[s].amount \/ (c.amount # old.amount /\ r.amount = c.amount)
  <2>1. /\ r.txn = Keep(rows[s].txn, old.txn, c.txn)
        /\ r.start = Keep(rows[s].start, old.start, c.start)
        /\ r.last = Keep(rows[s].last, old.last, c.last)
        /\ r.energy = Keep(rows[s].energy, old.energy, c.energy)
        /\ r.amount = Keep(rows[s].amount, old.amount, c.amount)
    BY DEF Saved, Merge, c
  <2> HIDE DEF r
  <2> QED BY <1>1, <2>1 DEF Keep
<1> HIDE DEF r
<1>4. /\ WithinMeter(s, r)
      /\ r.amount # Null => r.amount <= calculateAmountPaise(delivered[s], PricePerKwh)
  BY <1>2, <1>3 DEF RowBilled, WithinMeter
<1>5. rows' = rows \/ rows' = [rows EXCEPT ![s] = r]
  BY DEF Save, r
<1>6. ASSUME NEW u \in Sessions
      PROVE  /\ rows'[u].txn = rows[u].txn /\ rows'[u].start = rows[u].start
             /\ RowBilled(u)'
  <2>1. CASE rows'[u] = rows[u]
    BY <2>1 DEF RowBilled, WithinMeter
  <2>2. CASE u = s /\ rows'[s] = r
    BY <1>3, <1>4, <2>2 DEF RowBilled, WithinMeter
  <2> QED BY <1>0, <1>5, <2>1, <2>2
<1> QED BY <1>6

-----------------------------------------------------------------------------
\* A frame on its way to the row of its id.
Frames == {"rxMeter", "rxStop"}
FrameSound(h) ==
  h.kind \in Frames =>
    /\ h.txn # NoTxn
    /\ \A s \in Sessions : rows[s].txn = h.txn => h.wh - rows[s].start <= delivered[s]

\* ... and one that found it.
Matched == {"reading", "meter", "finish"}
MatchSound(h) ==
  h.kind \in Matched =>
    /\ h.docs[h.sid].txn # NoTxn
    /\ h.wh - h.docs[h.sid].start <= delivered[h.sid]

\* A StartTransaction, whose plug may have counted on since it was sent.
StartSound(h) ==
  h.kind \in Confirming /\ h.con # NoConnector /\ plug[h.con].begin[h.sid] = "starting" =>
    plug[h.con].meter - h.wh <= delivered[h.sid]

\* Everything a handler in flight carries.
HandlerBilled(p) ==
  /\ \A s \in Sessions : WithinMeter(s, op[p].docs[s])
  /\ FrameSound(op[p]) /\ MatchSound(op[p]) /\ StartSound(op[p])

\* A plug has counted no more since its session opened than was delivered.
PlugBilled(c) ==
  plug[c].phase # "idle" =>
    /\ plug[c].txn # NoTxn
    /\ \A s \in Sessions : rows[s].txn = plug[c].txn =>
         plug[c].meter - rows[s].start <= delivered[s]

\* Inductive as long as no transaction id is used twice.
BillInv ==
  /\ \A s \in Sessions : RowBilled(s)
  /\ \A p \in Procs : HandlerBilled(p)
  /\ \A c \in Connectors : PlugBilled(c)

-----------------------------------------------------------------------------
(* Transaction ids that are not used twice *)

\* The handler is about to store an id that no row has.
Unsaved(p) ==
  /\ op[p].kind \in {"confirm", "confirmAgain"}
  /\ \A s \in Sessions : rows[s].txn # op[p].txn

\* The id a plug charges under leads, if anywhere, to the session it charges, and the id
\* about to be stored is on no frame in flight.
NoIdReused ==
  /\ TransactionIdsNotReused
  /\ \A p, q \in Procs : Unsaved(p) /\ op[q].kind \in Frames => op[q].txn # op[p].txn

\* The id a handler carries was given out, and the one it is about to store is nobody
\* else's.
HandlerCounted(p) ==
  /\ op[p].kind \notin {"reseed", "confirmAgain"}
  /\ op[p].kind \in Frames \cup {"confirm"} => op[p].txn <= nextTxn
  /\ op[p].kind = "confirm" =>
       /\ \A s \in Sessions : rows[s].txn # op[p].txn
       /\ \A c \in Connectors : plug[c].phase # "idle" => plug[c].txn # op[p].txn

\* It is on no frame, and in no other handler.
IdsApart(p, q) ==
  op[p].kind = "confirm" /\ op[q].kind \in Frames \cup {"confirm"} => op[p].txn # op[q].txn

PlugCounted(c) ==
  plug[c].phase # "idle" =>
    /\ plug[c].txn <= nextTxn
    /\ \A s \in Sessions : rows[s].txn = plug[c].txn => s = plug[c].sid

\* Inductive until the counter of ids is set back: every id in use was given out by it,
\* and none twice.
CounterInv ==
  /\ seeded
  /\ \A s \in Sessions : rows[s].txn <= nextTxn
  /\ \A p \in Procs : HandlerCounted(p)
  /\ \A p, q \in Procs : p # q => IdsApart(p, q)
  /\ \A c \in Connectors : PlugCounted(c)

(* Then none is used twice. *)
LEMMA CountedNotReused == CounterInv => NoIdReused
<1> SUFFICES ASSUME CounterInv PROVE NoIdReused
  OBVIOUS
<1>1. TransactionIdsNotReused
  BY DEF CounterInv, PlugCounted, TransactionIdsNotReused
<1>2. ASSUME NEW p \in Procs, NEW q \in Procs, Unsaved(p), op[q].kind \in Frames
      PROVE  op[q].txn # op[p].txn
  <2>1. op[p].kind = "confirm"
    BY <1>2 DEF CounterInv, HandlerCounted, Unsaved
  <2>2. p # q
    BY <1>2, <2>1 DEF Frames
  <2> QED BY <1>2, <2>1, <2>2 DEF CounterInv, IdsApart
<1> QED BY <1>1, <1>2 DEF NoIdReused

-----------------------------------------------------------------------------
(* Readings that are not below the opening one *)

\* A plug works on one start at a time, and on none while it charges.  The simulator
\* refuses a RemoteStart only while it charges (onCommand), so two may overlap.
OneStartPerPlug ==
  \A c \in Connectors, s \in Sessions : plug[c].begin[s] # "no" =>
    /\ plug[c].phase = "idle"
    /\ \A t \in Sessions : plug[c].begin[t] # "no" => t = s

\* The energy of a row, or of a copy, is the span of its readings, and nothing is lost
\* to consumedWh's lower bound.
Tallies(r) ==
  /\ r.energy = consumedWh(r.start, r.last)
  /\ r.start # Null => r.last # Null /\ r.start <= r.last

FrameAbove(h) ==
  h.kind \in Frames => \A s \in Sessions : rows[s].txn = h.txn => rows[s].start <= h.wh

MatchAbove(h) ==
  h.kind \in Matched => h.docs[h.sid].start <= h.wh

StartAbove(h) ==
  h.kind \in Confirming /\ h.con # NoConnector /\ plug[h.con].begin[h.sid] = "starting" =>
    h.wh <= plug[h.con].base

HandlerAbove(p) ==
  /\ \A s \in Sessions : Tallies(op[p].docs[s])
  /\ FrameAbove(op[p]) /\ MatchAbove(op[p]) /\ StartAbove(op[p])

PlugAbove(c) ==
  /\ plug[c].base <= plug[c].meter
  /\ plug[c].phase # "idle" =>
       \A s \in Sessions : rows[s].txn = plug[c].txn => rows[s].start <= plug[c].base

\* Inductive together with BillInv, as long as starts do not overlap on a plug.
EnergyInv ==
  /\ \A s \in Sessions : Tallies(rows[s])
  /\ \A p \in Procs : HandlerAbove(p)
  /\ \A c \in Connectors : PlugAbove(c)

\* What is proved of each step: ids stay apart while the counter counts, and as long as
\* none is used twice, the two invariants stay.
Upheld ==
  /\ CounterInv /\ restarts' = 0 => CounterInv'
  /\ NoIdReused' => BillInv'
  /\ EnergyInv /\ OneStartPerPlug /\ NoIdReused' => EnergyInv'

-----------------------------------------------------------------------------
\* A step that confirms nothing: ids and opening readings stay, and the rows it leaves
\* are billed within the meter.
Calm ==
  /\ \A s \in Sessions : /\ rows'[s].txn = rows[s].txn /\ rows'[s].start = rows[s].start
                         /\ delivered'[s] >= delivered[s]
                         /\ RowBilled(s)'
  /\ CounterInv /\ restarts' = 0 => nextTxn' >= nextTxn /\ seeded'
  /\ EnergyInv => \A s \in Sessions : Tallies(rows'[s])

\* The plug charges as before and counts no more than was delivered, or begins under a
\* new id that its session will not have.
PlugCalm(c) ==
  plug'[c].phase # "idle" =>
    \/ /\ plug[c].phase # "idle" /\ plug'[c].txn = plug[c].txn /\ plug'[c].sid = plug[c].sid
       /\ \A s \in Sessions : s = plug[c].sid =>
            plug'[c].meter - plug[c].meter <= delivered'[s] - delivered[s]
    \/ /\ plug'[c].txn = nextTxn' /\ nextTxn' > nextTxn
       /\ \A s \in Sessions : s = plug'[c].sid => rows'[s].txn = NoTxn

\* Its counter runs on from where it began.
NoReset(c) == plug'[c].base = plug[c].base /\ plug'[c].meter >= plug[c].meter

\* The handler takes up nothing new: no frame, no match, no start.
HandlerCalm(p) ==
  /\ \A s \in Sessions : op'[p].docs[s] \in {op[p].docs[s], NoRow, rows'[s]}
  /\ op'[p].kind \in Frames =>
       op[p].kind \in Frames /\ op'[p].txn = op[p].txn /\ op'[p].wh = op[p].wh
  /\ op'[p].kind \in Matched =>
       /\ op[p].kind \in Matched /\ op'[p].sid = op[p].sid /\ op'[p].wh = op[p].wh
       /\ op'[p].docs = op[p].docs
  /\ op'[p].kind \in Confirming =>
       /\ op'[p].kind = op[p].kind /\ op'[p].sid = op[p].sid
       /\ op'[p].txn = op[p].txn /\ op'[p].wh = op[p].wh
       /\ \A c \in Connectors : op'[p].con = c /\ plug'[c].begin[op[p].sid] = "starting" =>
            /\ op[p].con = c /\ plug[c].begin[op[p].sid] = "starting"
            /\ plug'[c].meter - plug[c].meter
                 <= delivered'[op[p].sid] - delivered[op[p].sid]

(* The types the arithmetic needs. *)
LEMMA BillTypes ==
  ASSUME SessionInv
  PROVE  /\ rows \in [Sessions -> Row] /\ op \in [Procs -> Handler]
         /\ plug \in [Connectors -> Plug] /\ delivered \in [Sessions -> Nat]
         /\ nextTxn \in Nat /\ cmds \subseteq Command
         /\ \A p \in Procs : HandlerInv(op[p])
BY SessionInvParts DEF StoreInv, HandlersInv, WireInv

\* A copy that is kept, dropped or read afresh stays within the meter.
LEMMA CopyCalm ==
  ASSUME SessionInv, SessionInv', BillInv, Calm, NEW p \in Procs, NEW s \in Sessions,
         op'[p].docs[s] \in {op[p].docs[s], NoRow, rows'[s]}
  PROVE  WithinMeter(s, op[p].docs[s])'
<1>0. /\ delivered[s] \in Nat /\ delivered'[s] \in Nat
      /\ op[p].docs[s] \in Row
  BY BillTypes, SessionInvParts DEF WireInv, Handler
<1>1. CASE op'[p].docs[s] = op[p].docs[s]
  <2>1. WithinMeter(s, op[p].docs[s])
    BY DEF BillInv, HandlerBilled
  <2>2. /\ rows'[s].txn = rows[s].txn /\ rows'[s].start = rows[s].start
        /\ delivered'[s] >= delivered[s]
    BY DEF Calm
  <2> DEFINE r == op[p].docs[s]
  <2>3. /\ r.last \in Int /\ r.start \in Int /\ r.energy \in Int
    BY <1>0, ConstantsAssumption DEF Row, Meters, Null
  <2> HIDE DEF r
  <2>4. /\ r.last # Null /\ r.last - r.start <= delivered[s] => r.last - r.start <= delivered'[s]
        /\ r.energy <= delivered[s] => r.energy <= delivered'[s]
    BY <1>0, <2>2, <2>3
  <2> QED BY <1>1, <2>1, <2>2, <2>4 DEF WithinMeter, r
<1>2. CASE op'[p].docs[s] = NoRow
  BY <1>0, <1>2 DEF WithinMeter, NoRow
<1>3. CASE op'[p].docs[s] = rows'[s]
  BY <1>3 DEF Calm, RowBilled, WithinMeter
<1> QED BY <1>1, <1>2, <1>3

(* A calm handler carries what it carried ... *)
LEMMA HandlerCalmKept ==
  ASSUME SessionInv, SessionInv', BillInv, Calm, NEW p \in Procs, HandlerCalm(p)
  PROVE  HandlerBilled(p)'
<1>0. /\ op[p] \in Handler /\ op'[p] \in Handler
      /\ HandlerInv(op[p]) /\ HandlerBilled(p)
  BY BillTypes, SessionInvParts DEF HandlersInv, WireInv, BillInv
<1>1. ASSUME NEW s \in Sessions
      PROVE  /\ rows'[s].txn = rows[s].txn /\ rows'[s].start = rows[s].start
             /\ delivered'[s] >= delivered[s]
             /\ delivered[s] \in Nat /\ delivered'[s] \in Nat
             /\ rows[s].txn \in Nat /\ rows[s].start \in Int
  BY BillTypes, SessionInvParts, ConstantsAssumption DEF Calm, WireInv, Row, Meters, Null
<1>2. ASSUME NEW s \in Sessions PROVE WithinMeter(s, op[p].docs[s])'
  BY CopyCalm DEF HandlerCalm
<1>3. FrameSound(op[p])'
  <2> SUFFICES ASSUME op'[p].kind \in Frames PROVE FrameSound(op[p])'
    BY DEF FrameSound
  <2>1. /\ op[p].kind \in Frames /\ op'[p].txn = op[p].txn /\ op'[p].wh = op[p].wh
        /\ op[p].wh \in Int /\ op[p].txn \in Nat
    BY <1>0, ConstantsAssumption DEF HandlerCalm, Handler
  <2>2. op'[p].txn # NoTxn
    BY <1>0, <2>1 DEF HandlerBilled, FrameSound
  <2>3. ASSUME NEW s \in Sessions, rows'[s].txn = op'[p].txn
        PROVE  op'[p].wh - rows'[s].start <= delivered'[s]
    <3>1. op[p].wh - rows[s].start <= delivered[s]
      BY <1>0, <1>1, <2>1, <2>3 DEF HandlerBilled, FrameSound
    <3> QED BY <1>1, <2>1, <3>1
  <2> QED BY <2>2, <2>3 DEF FrameSound
<1>4. MatchSound(op[p])'
  <2> SUFFICES ASSUME op'[p].kind \in Matched PROVE MatchSound(op[p])'
    BY DEF MatchSound
  <2>1. /\ op[p].kind \in Matched /\ op'[p].sid = op[p].sid /\ op'[p].wh = op[p].wh
        /\ op'[p].docs = op[p].docs
    BY DEF HandlerCalm
  <2>2. PICK s \in Sessions : s = op[p].sid
    BY <1>0, <2>1 DEF HandlerInv, SessionKinds, HandlerKinds, Matched
  <2>3. op[p].docs[s].txn # NoTxn /\ op[p].wh - op[p].docs[s].start <= delivered[s]
    BY <1>0, <2>1, <2>2 DEF HandlerBilled, MatchSound
  <2>4. op[p].wh \in Int /\ op[p].docs[s].start \in Int
    BY <1>0, ConstantsAssumption DEF Handler, Row, Meters, Null
  <2>5. op[p].wh - op[p].docs[s].start <= delivered'[s]
    BY <1>1, <2>3, <2>4
  <2> QED BY <2>1, <2>2, <2>3, <2>5 DEF MatchSound
<1>5. StartSound(op[p])'
  <2>1. CASE op'[p].kind \notin Confirming
    BY <2>1 DEF StartSound, Confirming
  <2>2. CASE op'[p].kind \in Confirming
    <3>1. /\ op'[p].kind = op[p].kind /\ op'[p].sid = op[p].sid
          /\ op'[p].txn = op[p].txn /\ op'[p].wh = op[p].wh
          /\ op[p].wh \in Int /\ op[p].txn \in Nat
      BY <1>0, <2>2, ConstantsAssumption DEF HandlerCalm, Handler
    <3>2. PICK s \in Sessions : s = op[p].sid
      BY <1>0, <2>2, <3>1 DEF HandlerInv, SessionKinds, HandlerKinds, Confirming
    <3>3. StartSound(op[p])
      BY <1>0 DEF HandlerBilled
    <3>4. ASSUME NEW c \in Connectors, op'[p].con = c, plug'[c].begin[s] = "starting",
                 c # NoConnector
          PROVE  plug'[c].meter - op'[p].wh <= delivered'[s]
      <4>1. /\ op[p].con = c /\ plug[c].begin[s] = "starting"
            /\ plug'[c].meter - plug[c].meter <= delivered'[s] - delivered[s]
        BY <2>2, <3>2, <3>4 DEF HandlerCalm
      <4>2. plug[c].meter - op[p].wh <= delivered[s]
        BY <2>2, <3>1, <3>2, <3>3, <3>4, <4>1 DEF StartSound
      <4>3. plug[c].meter \in Int /\ plug'[c].meter \in Int
        BY BillTypes, SessionInvParts, ConstantsAssumption DEF WireInv, Plug
      <4> QED BY <1>1, <3>1, <4>1, <4>2, <4>3
    <3>5. op'[p].con # NoConnector => op'[p].con \in Connectors
      BY <1>0 DEF Handler
    <3>6. op'[p].con # NoConnector /\ plug'[op'[p].con].begin[s] = "starting" =>
            plug'[op'[p].con].meter - op'[p].wh <= delivered'[s]
      BY <3>4, <3>5
    <3> QED BY <3>1, <3>2, <3>6 DEF StartSound
  <2> QED BY <2>1, <2>2
<1> QED BY <1>2, <1>3, <1>4, <1>5 DEF HandlerBilled

(* ... and so does a calm plug. *)
LEMMA PlugCalmKept ==
  ASSUME SessionInv, SessionInv', BillInv, NoIdReused, NoIdReused', Calm,
         NEW c \in Connectors, PlugCalm(c)
  PROVE  PlugBilled(c)'
<1> SUFFICES ASSUME plug'[c].phase # "idle" PROVE PlugBilled(c)'
  BY DEF PlugBilled
<1>0. /\ plug[c] \in Plug /\ plug'[c] \in Plug /\ nextTxn \in Nat /\ nextTxn' \in Nat
      /\ plug[c].meter \in Int /\ plug'[c].meter \in Int /\ plug[c].txn \in Nat
  BY BillTypes, SessionInvParts, ConstantsAssumption DEF WireInv, Plug
<1>1. ASSUME NEW s \in Sessions
      PROVE  /\ rows'[s].txn = rows[s].txn /\ rows'[s].start = rows[s].start
             /\ delivered[s] \in Nat /\ delivered'[s] \in Nat
             /\ rows[s].txn \in Nat /\ rows[s].start \in Int
  BY BillTypes, SessionInvParts, ConstantsAssumption
     DEF Calm, WireInv, Row, Meters, Null
<1>2. CASE /\ plug'[c].txn = nextTxn' /\ nextTxn' > nextTxn
           /\ \A s \in Sessions : s = plug'[c].sid => rows'[s].txn = NoTxn
  <2>1. plug'[c].txn # NoTxn
    BY <1>0, <1>2 DEF NoTxn
  <2>2. \A s \in Sessions : rows'[s].txn # plug'[c].txn
    BY <1>2, <2>1 DEF NoIdReused, TransactionIdsNotReused
  <2> QED BY <2>1, <2>2 DEF PlugBilled
<1>3. CASE /\ plug[c].phase # "idle" /\ plug'[c].txn = plug[c].txn /\ plug'[c].sid = plug[c].sid
           /\ \A s \in Sessions : s = plug[c].sid =>
                plug'[c].meter - plug[c].meter <= delivered'[s] - delivered[s]
  <2>1. PlugBilled(c)
    BY DEF BillInv
  <2>2. plug'[c].txn # NoTxn
    BY <1>3, <2>1 DEF PlugBilled
  <2>3. ASSUME NEW s \in Sessions, rows'[s].txn = plug'[c].txn
        PROVE  plug'[c].meter - rows'[s].start <= delivered'[s]
    <3>1. plug[c].meter - rows[s].start <= delivered[s]
      BY <1>1, <1>3, <2>1, <2>3 DEF PlugBilled
    <3>2. s = plug[c].sid
      BY <1>1, <1>3, <2>3 DEF NoIdReused, TransactionIdsNotReused
    <3> QED BY <1>0, <1>1, <1>3, <3>1, <3>2
  <2> QED BY <2>2, <2>3 DEF PlugBilled
<1> QED BY <1>2, <1>3 DEF PlugCalm

(* A calm handler's id stays its own, while the counter counts ... *)
LEMMA HandlerCounts ==
  ASSUME SessionInv, SessionInv', CounterInv, restarts' = 0, Calm,
         \A c \in Connectors : PlugCalm(c), NEW p \in Procs, HandlerCalm(p)
  PROVE  HandlerCounted(p)'
<1>0. /\ op[p] \in Handler /\ op[p].txn \in Nat
      /\ nextTxn \in Nat /\ nextTxn' \in Nat /\ nextTxn' >= nextTxn
  BY BillTypes, SessionInvParts DEF WireInv, Handler, Calm
<1>1. HandlerCounted(p)
  BY DEF CounterInv
<1>2. op'[p].kind \notin {"reseed", "confirmAgain"}
  BY <1>1 DEF HandlerCalm, HandlerCounted, Confirming
<1>3. ASSUME op'[p].kind \in Frames \cup {"confirm"}
      PROVE  /\ op[p].kind \in Frames \cup {"confirm"} /\ op'[p].txn = op[p].txn
             /\ op'[p].kind = "confirm" => op[p].kind = "confirm"
  BY <1>3 DEF HandlerCalm, Confirming, Frames
<1>4. op'[p].kind \in Frames \cup {"confirm"} => op'[p].txn <= nextTxn'
  <2>1. op[p].kind \in Frames \cup {"confirm"} => op[p].txn <= nextTxn
    BY <1>1 DEF HandlerCounted
  <2> QED BY <1>0, <1>3, <2>1
<1>5. ASSUME op'[p].kind = "confirm", NEW c \in Connectors, plug'[c].phase # "idle"
      PROVE  plug'[c].txn # op'[p].txn
  <2>1. /\ op'[p].txn = op[p].txn /\ op[p].txn <= nextTxn
        /\ plug[c].phase # "idle" => plug[c].txn # op[p].txn
    BY <1>1, <1>3, <1>5 DEF HandlerCounted
  <2> QED BY <1>0, <1>5, <2>1 DEF PlugCalm
<1>6. op'[p].kind = "confirm" => \A s \in Sessions : rows'[s].txn # op'[p].txn
  BY <1>1, <1>3 DEF HandlerCounted, Calm
<1> QED BY <1>2, <1>4, <1>5, <1>6 DEF HandlerCounted

(* ... and apart from those of others ... *)
LEMMA ApartCalm ==
  ASSUME CounterInv, NEW p \in Procs, NEW q \in Procs, p # q, HandlerCalm(p), HandlerCalm(q)
  PROVE  IdsApart(p, q)'
<1>1. IdsApart(p, q)
  BY DEF CounterInv
<1>2. op'[p].kind = "confirm" => op[p].kind = "confirm" /\ op'[p].txn = op[p].txn
  BY DEF HandlerCalm, Confirming
<1>3. op'[q].kind \in Frames \cup {"confirm"} =>
        op[q].kind \in Frames \cup {"confirm"} /\ op'[q].txn = op[q].txn
  BY DEF HandlerCalm, Confirming
<1> QED BY <1>1, <1>2, <1>3 DEF IdsApart

(* ... and so does that of a calm plug. *)
LEMMA PlugCounts ==
  ASSUME SessionInv, SessionInv', CounterInv, restarts' = 0, Calm,
         NEW c \in Connectors, PlugCalm(c)
  PROVE  PlugCounted(c)'
<1> SUFFICES ASSUME plug'[c].phase # "idle" PROVE PlugCounted(c)'
  BY DEF PlugCounted
<1>0. /\ nextTxn \in Nat /\ nextTxn' \in Nat /\ nextTxn' >= nextTxn /\ plug[c].txn \in Nat
  BY BillTypes, SessionInvParts DEF WireInv, Plug, Calm
<1>1. ASSUME NEW s \in Sessions
      PROVE  rows'[s].txn = rows[s].txn /\ rows[s].txn \in Nat /\ rows[s].txn <= nextTxn
  BY BillTypes DEF Calm, Row, CounterInv
<1>2. CASE plug'[c].txn = nextTxn' /\ nextTxn' > nextTxn
  <2>1. plug'[c].txn <= nextTxn' /\ \A s \in Sessions : rows'[s].txn # plug'[c].txn
    BY <1>0, <1>1, <1>2
  <2> QED BY <2>1 DEF PlugCounted
<1>3. CASE plug[c].phase # "idle" /\ plug'[c].txn = plug[c].txn /\ plug'[c].sid = plug[c].sid
  <2>1. PlugCounted(c)
    BY DEF CounterInv
  <2>2. plug[c].txn <= nextTxn
    BY <1>3, <2>1 DEF PlugCounted
  <2>3. plug'[c].txn <= nextTxn'
    BY <1>0, <1>3, <2>2
  <2> QED BY <1>1, <1>3, <2>1, <2>3 DEF PlugCounted
<1> QED BY <1>2, <1>3 DEF PlugCalm

\* So, while the counter counts, it is enough to look at the handler that moves.
LEMMA IdsCounted ==
  ASSUME SessionInv, SessionInv', CounterInv, restarts' = 0, Calm,
         \A c \in Connectors : PlugCalm(c),
         NEW p \in Procs, \A q \in Procs \ {p} : HandlerCalm(q),
         HandlerCounted(p)',
         \A q \in Procs \ {p} : IdsApart(p, q)' /\ IdsApart(q, p)'
  PROVE  CounterInv'
<1>1. \A q \in Procs : HandlerCounted(q)'
  BY HandlerCounts
<1>2. \A q, r \in Procs : q # r => IdsApart(q, r)'
  BY ApartCalm
<1>3. \A c \in Connectors : PlugCounted(c)'
  BY PlugCounts
<1>4. seeded'
  BY DEF Calm
<1>5. ASSUME NEW s \in Sessions PROVE rows'[s].txn <= nextTxn'
  <2>1. rows'[s].txn = rows[s].txn /\ rows[s].txn <= nextTxn /\ nextTxn' >= nextTxn
    BY DEF Calm, CounterInv
  <2>2. rows[s].txn \in Nat /\ nextTxn \in Nat /\ nextTxn' \in Nat
    BY BillTypes, SessionInvParts DEF WireInv, Row
  <2> QED BY <2>1, <2>2
<1> QED BY <1>1, <1>2, <1>3, <1>4, <1>5 DEF CounterInv

(* ... or, where none does, at none. *)
LEMMA AllCounted ==
  ASSUME SessionInv, SessionInv', CounterInv, restarts' = 0, Calm,
         \A c \in Connectors : PlugCalm(c), \A q \in Procs : HandlerCalm(q)
  PROVE  CounterInv'
<1>1. PICK p \in Procs : TRUE
  BY DEF Procs
<1>2. HandlerCounted(p)'
  BY HandlerCounts
<1>3. \A q \in Procs \ {p} : IdsApart(p, q)' /\ IdsApart(q, p)'
  BY ApartCalm
<1> QED BY <1>2, <1>3, IdsCounted

\* The same for readings: a calm handler's copies tally and its frames stay above ...
LEMMA AboveKept ==
  ASSUME SessionInv, SessionInv', EnergyInv, Calm, NEW p \in Procs, HandlerCalm(p)
  PROVE  /\ \A s \in Sessions : Tallies(op'[p].docs[s])
         /\ FrameAbove(op[p])' /\ MatchAbove(op[p])'
<1>1. HandlerAbove(p)
  BY DEF EnergyInv
<1>2. ASSUME NEW s \in Sessions PROVE Tallies(op'[p].docs[s])
  <2>1. Tallies(op[p].docs[s]) /\ Tallies(rows'[s])
    BY <1>1 DEF HandlerAbove, Calm
  <2>2. Tallies(NoRow)
    BY DEF Tallies, NoRow, consumedWh
  <2>3. op'[p].docs[s] \in {op[p].docs[s], NoRow, rows'[s]}
    BY DEF HandlerCalm
  <2> QED BY <2>1, <2>2, <2>3
<1>3. FrameAbove(op[p])'
  <2>1. \A s \in Sessions : rows'[s].txn = rows[s].txn /\ rows'[s].start = rows[s].start
    BY DEF Calm
  <2>2. op'[p].kind \in Frames =>
          op[p].kind \in Frames /\ op'[p].txn = op[p].txn /\ op'[p].wh = op[p].wh
    BY DEF HandlerCalm
  <2> QED BY <1>1, <2>1, <2>2 DEF HandlerAbove, FrameAbove
<1>4. MatchAbove(op[p])'
  BY <1>1 DEF HandlerCalm, HandlerAbove, MatchAbove
<1> QED BY <1>2, <1>3, <1>4

\* ... a start that waits keeps its opening reading ...
LEMMA StartAboveKept ==
  ASSUME SessionInv, SessionInv', EnergyInv, NEW p \in Procs, HandlerCalm(p),
         \A c \in Connectors : NoReset(c)
  PROVE  StartAbove(op[p])'
<1> SUFFICES ASSUME op'[p].kind \in Confirming, op'[p].con # NoConnector,
                    plug'[op'[p].con].begin[op'[p].sid] = "starting"
             PROVE  op'[p].wh <= plug'[op'[p].con].base
  BY DEF StartAbove
<1>0. op'[p] \in Handler
  BY BillTypes, SessionInvParts DEF HandlersInv, WireInv, BillInv
<1>1. PICK c \in Connectors : c = op'[p].con
  BY <1>0 DEF Handler
<1>2. /\ op[p].kind \in Confirming /\ op'[p].sid = op[p].sid /\ op'[p].wh = op[p].wh
      /\ op[p].con = c /\ plug[c].begin[op[p].sid] = "starting"
  BY <1>1 DEF HandlerCalm
<1>3. StartAbove(op[p]) /\ plug'[c].base = plug[c].base
  BY DEF EnergyInv, HandlerAbove, NoReset
<1>4. op[p].con # NoConnector
  BY <1>2, ConstantsAssumption
<1> QED BY <1>1, <1>2, <1>3, <1>4 DEF StartAbove

\* ... and a calm plug that is not reset stays above what its session opened with.
LEMMA PlugAboveKept ==
  ASSUME SessionInv, SessionInv', NoIdReused', EnergyInv, Calm, NEW c \in Connectors,
         PlugCalm(c), NoReset(c)
  PROVE  PlugAbove(c)'
<1>0. /\ plug[c].base \in Int /\ plug[c].meter \in Int /\ plug'[c].meter \in Int
      /\ nextTxn \in Nat /\ nextTxn' \in Nat
  BY BillTypes, SessionInvParts, ConstantsAssumption DEF WireInv, Plug
<1>1. PlugAbove(c)
  BY DEF EnergyInv
<1>2. plug'[c].base <= plug'[c].meter
  BY <1>0, <1>1 DEF PlugAbove, NoReset
<1>3. ASSUME plug'[c].phase # "idle", NEW s \in Sessions, rows'[s].txn = plug'[c].txn
      PROVE  rows'[s].start <= plug'[c].base
  <2>1. rows'[s].txn = rows[s].txn /\ rows'[s].start = rows[s].start
    BY DEF Calm
  <2>2. CASE /\ plug'[c].txn = nextTxn' /\ nextTxn' > nextTxn
             /\ \A u \in Sessions : u = plug'[c].sid => rows'[u].txn = NoTxn
    <3>1. plug'[c].txn = NoTxn
      BY <1>3, <2>2 DEF NoIdReused, TransactionIdsNotReused
    <3>2. nextTxn' # NoTxn
      BY <1>0, <2>2 DEF NoTxn
    <3> QED BY <2>2, <3>1, <3>2
  <2>3. CASE plug[c].phase # "idle" /\ plug'[c].txn = plug[c].txn
    BY <1>1, <1>3, <2>1, <2>3 DEF PlugAbove, NoReset
  <2> QED BY <1>3, <2>2, <2>3 DEF PlugCalm
<1> QED BY <1>2, <1>3 DEF PlugAbove

\* So it is enough to look at the one handler that moves.
LEMMA OneMoves ==
  ASSUME SessionInv, SessionInv', BillInv, NoIdReused, Calm,
         \A c \in Connectors : PlugCalm(c),
         NEW p \in Procs, \A q \in Procs \ {p} : HandlerCalm(q),
         CounterInv /\ restarts' = 0 =>
           /\ HandlerCounted(p)'
           /\ \A q \in Procs \ {p} : IdsApart(p, q)' /\ IdsApart(q, p)',
         HandlerBilled(p)',
         EnergyInv /\ OneStartPerPlug /\ NoIdReused' =>
           /\ HandlerAbove(p)' /\ \A q \in Procs \ {p} : StartAbove(op[q])'
           /\ \A c \in Connectors : PlugAbove(c)'
  PROVE  Upheld
<1>1. ASSUME CounterInv, restarts' = 0 PROVE CounterInv'
  BY <1>1, IdsCounted
<1>2. ASSUME NoIdReused' PROVE BillInv'
  <2>1. \A q \in Procs : HandlerBilled(q)'
    BY HandlerCalmKept
  <2>2. \A c \in Connectors : PlugBilled(c)'
    BY <1>2, PlugCalmKept
  <2>3. \A s \in Sessions : RowBilled(s)'
    BY DEF Calm
  <2> QED BY <2>1, <2>2, <2>3 DEF BillInv
<1>3. ASSUME EnergyInv, OneStartPerPlug, NoIdReused' PROVE EnergyInv'
  <2>1. ASSUME NEW q \in Procs \ {p} PROVE HandlerAbove(q)'
    BY <1>3, <2>1, AboveKept DEF HandlerAbove
  <2>2. \A s \in Sessions : Tallies(rows[s])'
    BY <1>3 DEF Calm
  <2> QED BY <1>3, <2>1, <2>2 DEF EnergyInv
<1> QED BY <1>1, <1>2, <1>3 DEF Upheld

\* And where none does, nothing else is to be shown.
LEMMA AllCalm ==
  ASSUME SessionInv, SessionInv', BillInv, NoIdReused, Calm,
         \A c \in Connectors : PlugCalm(c) /\ NoReset(c),
         \A q \in Procs : HandlerCalm(q)
  PROVE  Upheld
<1>1. ASSUME CounterInv, restarts' = 0 PROVE CounterInv'
  BY <1>1, AllCounted
<1>2. ASSUME NoIdReused' PROVE BillInv'
  <2>1. \A q \in Procs : HandlerBilled(q)'
    BY HandlerCalmKept
  <2>2. \A c \in Connectors : PlugBilled(c)'
    BY <1>2, PlugCalmKept
  <2>3. \A s \in Sessions : RowBilled(s)'
    BY DEF Calm
  <2> QED BY <2>1, <2>2, <2>3 DEF BillInv
<1>3. ASSUME EnergyInv, NoIdReused' PROVE EnergyInv'
  <2>1. ASSUME NEW q \in Procs PROVE HandlerAbove(q)'
    BY <1>3, AboveKept, StartAboveKept DEF HandlerAbove
  <2>2. \A s \in Sessions : Tallies(rows[s])'
    BY <1>3 DEF Calm
  <2>3. \A c \in Connectors : PlugAbove(c)'
    BY <1>3, PlugAboveKept
  <2> QED BY <2>1, <2>2, <2>3 DEF EnergyInv
<1> QED BY <1>1, <1>2, <1>3 DEF Upheld

-----------------------------------------------------------------------------
(* The steps that neither confirm a session nor take a reading *)

\* The kinds of handler BillInv speaks of.
Tracked == Frames \cup Matched \cup Confirming

\* A plug that counts nothing, starts nothing, and charges as before or stops.
PlugStill(c) ==
  /\ plug'[c].meter = plug[c].meter /\ plug'[c].base = plug[c].base
  /\ \A s \in Sessions : plug'[c].begin[s] = "starting" => plug[c].begin[s] = "starting"
  /\ plug'[c].phase # "idle" =>
       plug[c].phase # "idle" /\ plug'[c].txn = plug[c].txn /\ plug'[c].sid = plug[c].sid

\* A handler that goes on to a step BillInv says nothing of.
Quiet(p) ==
  /\ op'[p].kind \notin Tracked
  /\ \A s \in Sessions : op'[p].docs[s] \in {op[p].docs[s], NoRow, rows'[s]}

(* Rows, counter and energy left alone. *)
LEMMA CalmWorld ==
  ASSUME BillInv, SessionInv, UNCHANGED <<rows, delivered>>,
         CounterInv /\ restarts' = 0 => UNCHANGED <<nextTxn, seeded>>
  PROVE  Calm
<1>1. \A s \in Sessions : delivered'[s] >= delivered[s]
  BY BillTypes
<1>2. \A s \in Sessions : RowBilled(s)'
  BY DEF BillInv, RowBilled, WithinMeter
<1>3. EnergyInv => \A s \in Sessions : Tallies(rows'[s])
  BY DEF EnergyInv
<1>4. ASSUME CounterInv, restarts' = 0 PROVE nextTxn' >= nextTxn /\ seeded'
  <2>1. nextTxn' = nextTxn /\ seeded' = seeded
    BY <1>4
  <2>2. nextTxn \in Nat /\ seeded
    BY <1>4, BillTypes DEF CounterInv
  <2> QED BY <2>1, <2>2
<1> QED BY <1>1, <1>2, <1>3, <1>4 DEF Calm

(* Plugs that are still are calm, too. *)
LEMMA StillPlugs ==
  ASSUME SessionInv, SessionInv', Calm, \A c \in Connectors : PlugStill(c)
  PROVE  \A c \in Connectors : PlugCalm(c) /\ NoReset(c)
<1> SUFFICES ASSUME NEW c \in Connectors PROVE PlugCalm(c) /\ NoReset(c)
  OBVIOUS
<1>1. plug[c].meter \in Int
  BY BillTypes, ConstantsAssumption DEF Plug
<1>2. ASSUME NEW s \in Sessions
      PROVE  plug'[c].meter - plug[c].meter <= delivered'[s] - delivered[s]
  <2>1. /\ delivered[s] \in Nat /\ delivered'[s] \in Nat /\ delivered'[s] >= delivered[s]
        /\ plug'[c].meter = plug[c].meter
    BY BillTypes, SessionInvParts DEF WireInv, Calm, PlugStill
  <2> QED BY <1>1, <2>1
<1>3. NoReset(c)
  <2>1. plug'[c].meter = plug[c].meter /\ plug'[c].base = plug[c].base
    BY DEF PlugStill
  <2> QED BY <1>1, <2>1 DEF NoReset
<1> QED BY <1>2, <1>3 DEF PlugStill, PlugCalm

(* So is a handler that waits, with the link it will answer on or without. *)
LEMMA SameHandler ==
  ASSUME SessionInv, SessionInv', Calm, \A c \in Connectors : PlugStill(c),
         NEW q \in Procs,
         op'[q] = op[q] \/ op'[q] = [op[q] EXCEPT !.con = NoConnector]
  PROVE  HandlerCalm(q)
<1>0. op[q] \in Handler /\ HandlerInv(op[q]) /\ NoConnector \notin Connectors
  BY BillTypes, ConstantsAssumption
<1>1. /\ op'[q].kind = op[q].kind /\ op'[q].sid = op[q].sid /\ op'[q].txn = op[q].txn
      /\ op'[q].wh = op[q].wh /\ op'[q].docs = op[q].docs
      /\ op'[q].con = op[q].con \/ op'[q].con = NoConnector
  BY <1>0 DEF Handler
<1>2. ASSUME NEW c \in Connectors, op'[q].con = c, op[q].kind \in Confirming,
             plug'[c].begin[op[q].sid] = "starting"
      PROVE  /\ op[q].con = c /\ plug[c].begin[op[q].sid] = "starting"
             /\ plug'[c].meter - plug[c].meter <= delivered'[op[q].sid] - delivered[op[q].sid]
  <2>1. PICK s \in Sessions : s = op[q].sid
    BY <1>0, <1>2 DEF HandlerInv, SessionKinds, HandlerKinds, Confirming
  <2>2. /\ delivered[s] \in Nat /\ delivered'[s] \in Nat /\ delivered'[s] >= delivered[s]
        /\ plug'[c].meter = plug[c].meter /\ plug[c].meter \in Int
        /\ plug'[c].begin[s] = "starting" => plug[c].begin[s] = "starting"
    BY BillTypes, SessionInvParts, ConstantsAssumption DEF WireInv, Calm, PlugStill, Plug
  <2>3. plug'[c].meter - plug[c].meter <= delivered'[s] - delivered[s]
    BY <2>2
  <2> QED BY <1>0, <1>1, <1>2, <2>1, <2>2, <2>3
<1> QED BY <1>1, <1>2 DEF HandlerCalm

(* And one that goes on quietly. *)
LEMMA QuietHandler ==
  ASSUME NEW p \in Procs, Quiet(p)
  PROVE  HandlerCalm(p)
BY DEF Quiet, HandlerCalm, Tracked

\* Handlers go on quietly, lose the link they would have answered on, or wait.
LEMMA QuietStep ==
  ASSUME SessionInv, SessionInv', BillInv, NoIdReused, Calm, \A c \in Connectors : PlugStill(c),
         \A q \in Procs : \/ op'[q] = op[q] \/ op'[q] = [op[q] EXCEPT !.con = NoConnector]
                          \/ Quiet(q)
  PROVE  Upheld
BY AllCalm, StillPlugs, SameHandler, QuietHandler

(* An idle handler, and the kinds that take no reading. *)
LEMMA IdleIsQuiet ==
  /\ Idle.docs = NoDocs /\ Idle.kind = "idle"
  /\ \A s \in Sessions : NoDocs[s] = NoRow
  /\ \A k \in {"idle", "create", "awaitStart", "markFailed", "stopLookup", "awaitStop",
               "stopping", "stopOffline", "rxFail", "fail", "sweep"} : k \notin Tracked
BY DEF Idle, NoDocs, Tracked, Frames, Matched, Confirming

\* A handler that leaves, or goes on to a step that takes no reading.
LEMMA Leaves ==
  ASSUME SessionInv, NEW p \in Procs,
         Leave(p) \/ \E k \in {"stopOffline", "awaitStop", "rxFail"} : Goto(p, k)
  PROVE  Quiet(p) /\ \A q \in Procs \ {p} : op'[q] = op[q]
<1>0. op \in [Procs -> Handler]
  BY BillTypes
<1>1. CASE Leave(p)
  BY <1>0, <1>1, IdleIsQuiet DEF Leave, Quiet
<1>2. ASSUME NEW k \in {"stopOffline", "awaitStop", "rxFail"}, Goto(p, k)
      PROVE  Quiet(p) /\ \A q \in Procs \ {p} : op'[q] = op[q]
  <2>1. op'[p].kind = k /\ op'[p].docs = op[p].docs /\ \A q \in Procs \ {p} : op'[q] = op[q]
    BY <1>0, <1>2 DEF Goto, Handler
  <2> QED BY <2>1, IdleIsQuiet DEF Quiet
<1> QED BY <1>1, <1>2

(* Plugs left alone. *)
LEMMA StillIfSame ==
  plug' = plug => \A c \in Connectors : PlugStill(c)
BY DEF PlugStill

(* A handler that enters a step that takes no reading. *)
LEMMA EntersQuietly ==
  ASSUME SessionInv, NEW p \in Procs, NEW h, Enter(p, h), h.kind \notin Tracked,
         \A s \in Sessions : h.docs[s] \in {op[p].docs[s], NoRow, rows'[s]}
  PROVE  Quiet(p) /\ \A q \in Procs \ {p} : op'[q] = op[q]
<1>1. op'[p] = h /\ \A q \in Procs \ {p} : op'[q] = op[q]
  BY BillTypes DEF Enter
<1> QED BY <1>1 DEF Quiet

(* What people ask for, and commands given up. *)
LEMMA RequestsBilled ==
  ASSUME SessionInv, SessionInv', BillInv, NoIdReused, NEW p \in Slots,
         PersonStep(p) \/ requestStop(p) \/ commandTimeout(p)
  PROVE  Upheld
<1>0. p \in Procs /\ op \in [Procs -> Handler] /\ op[p] \in Handler
  BY BillTypes DEF Procs
<1>1. UNCHANGED <<rows, delivered, nextTxn, seeded, plug>>
  BY DEF PersonStep, startSession, stopSession, requestStop, commandTimeout, db, net, counters
<1>2. Quiet(p) /\ \A q \in Procs \ {p} : op'[q] = op[q]
  <2>1. ASSUME NEW d \in Drivers, NEW c \in Connectors, NEW s \in Sessions,
               startSession(p, d, c, s)
        PROVE  Quiet(p) /\ \A q \in Procs \ {p} : op'[q] = op[q]
    <3> DEFINE h == [Idle EXCEPT !.kind = "create", !.sid = s, !.driver = d, !.con = c]
    <3>1. Enter(p, h)
      BY <2>1 DEF startSession
    <3>2. h.kind = "create" /\ h.docs = NoDocs
      BY DEF Idle
    <3> HIDE DEF h
    <3>3. h.kind \notin Tracked /\ \A u \in Sessions : h.docs[u] = NoRow
      BY <3>2, IdleIsQuiet
    <3> QED BY <1>0, <3>1, <3>3, EntersQuietly
  <2>2. ASSUME NEW s \in Sessions, stopSession(p, s)
        PROVE  Quiet(p) /\ \A q \in Procs \ {p} : op'[q] = op[q]
    <3> DEFINE docs == [NoDocs EXCEPT ![s] = rows[s]]
    <3>1. PICK k \in {"markFailed", "stopLookup"} :
            Enter(p, [Idle EXCEPT !.kind = k, !.sid = s, !.why = "StartTimeout",
                                  !.docs = docs])
      BY <2>2 DEF stopSession, Idle
    <3>2. \A u \in Sessions : docs[u] \in {NoRow, rows'[u]}
      BY <1>1 DEF NoDocs
    <3> HIDE DEF docs
    <3> DEFINE h == [Idle EXCEPT !.kind = k, !.sid = s, !.why = "StartTimeout",
                                 !.docs = docs]
    <3>3. h.kind = k /\ h.docs = docs
      BY DEF Idle
    <3>4. Enter(p, h)
      BY <3>1
    <3> HIDE DEF h
    <3>5. h.kind \notin Tracked
      BY <3>3, IdleIsQuiet
    <3> QED BY <1>0, <3>2, <3>3, <3>4, <3>5, EntersQuietly
  <2>3. CASE requestStop(p)
    BY <1>0, <2>3, Leaves DEF requestStop
  <2>4. CASE commandTimeout(p)
    <3>1. CASE Enter(p, [op[p] EXCEPT !.kind = "markFailed", !.why = "StartTimeout"])
      <4> DEFINE h == [op[p] EXCEPT !.kind = "markFailed", !.why = "StartTimeout"]
      <4>1. h.kind = "markFailed" /\ h.docs = op[p].docs
        BY <1>0 DEF Handler
      <4> HIDE DEF h
      <4> QED BY <1>0, <3>1, <4>1, IdleIsQuiet, EntersQuietly DEF h
    <3> QED BY <1>0, <2>4, <3>1, Leaves DEF commandTimeout
  <2> QED BY <2>1, <2>2, <2>3, <2>4 DEF PersonStep
<1> QED BY <1>1, <1>2, CalmWorld, StillIfSame, QuietStep

\* The rows a failure handler, or the sweep, sets out to end.
LEMMA PassesBilled ==
  ASSUME SessionInv, SessionInv', BillInv, NoIdReused, NEW p \in Procs,
         \/ failOpenSessions(p) \/ releaseConnectors(p)
         \/ p = Sweeper /\ sweepUnconfirmedSessions
  PROVE  Upheld
<1>0. op \in [Procs -> Handler] /\ op[p] \in Handler
  BY BillTypes
<1>1. UNCHANGED <<rows, delivered, nextTxn, seeded, plug>>
  BY DEF failOpenSessions, releaseConnectors, sweepUnconfirmedSessions, db, net, counters
<1>2. ASSUME NEW S, NEW s \in Sessions PROVE DocsOf(S)[s] \in {NoRow, rows'[s]}
  BY <1>1 DEF DocsOf
<1>3. Quiet(p) /\ \A q \in Procs \ {p} : op'[q] = op[q]
  <2>1. CASE releaseConnectors(p)
    BY <2>1, Leaves DEF releaseConnectors
  <2>2. ASSUME NEW S, Enter(p, [op[p] EXCEPT !.kind = "fail", !.docs = DocsOf(S)])
        PROVE  Quiet(p) /\ \A q \in Procs \ {p} : op'[q] = op[q]
    <3> DEFINE h == [op[p] EXCEPT !.kind = "fail", !.docs = DocsOf(S)]
    <3>1. h.kind = "fail" /\ h.docs = DocsOf(S)
      BY <1>0 DEF Handler
    <3>2. Enter(p, h)
      BY <2>2
    <3> HIDE DEF h
    <3>3. h.kind \notin Tracked /\ \A s \in Sessions : h.docs[s] \in {NoRow, rows'[s]}
      BY <1>2, <3>1, IdleIsQuiet
    <3> QED BY <3>2, <3>3, EntersQuietly
  <2>3. ASSUME NEW S, NEW ch, Enter(p, [op[p] EXCEPT !.kind = "fail", !.charger = ch,
                                        !.rest = @ \ {ch}, !.docs = DocsOf(S)])
        PROVE  Quiet(p) /\ \A q \in Procs \ {p} : op'[q] = op[q]
    <3> DEFINE h == [op[p] EXCEPT !.kind = "fail", !.charger = ch,
                                  !.rest = @ \ {ch}, !.docs = DocsOf(S)]
    <3>1. h.kind = "fail" /\ h.docs = DocsOf(S)
      BY <1>0 DEF Handler
    <3>2. Enter(p, h)
      BY <2>3
    <3> HIDE DEF h
    <3>3. h.kind \notin Tracked /\ \A s \in Sessions : h.docs[s] \in {NoRow, rows'[s]}
      BY <1>2, <3>1, IdleIsQuiet
    <3> QED BY <3>2, <3>3, EntersQuietly
  <2>4. CASE p = Sweeper /\ sweepUnconfirmedSessions
    <3> DEFINE h == [Idle EXCEPT !.kind = "sweep", !.why = "StartTimeout",
                                 !.docs = DocsOf(Unconfirmed)]
    <3>1. h.kind = "sweep" /\ h.docs = DocsOf(Unconfirmed)
      BY DEF Idle
    <3>2. Enter(p, h)
      BY <2>4 DEF sweepUnconfirmedSessions
    <3> HIDE DEF h
    <3> QED BY <1>2, <3>1, <3>2, IdleIsQuiet, EntersQuietly
  <2> QED BY <2>1, <2>2, <2>3, <2>4 DEF failOpenSessions
<1> QED BY <1>1, <1>3, CalmWorld, StillIfSame, QuietStep

\* What a reading handler does next.
LEMMA ReadingBilled ==
  ASSUME SessionInv, SessionInv', BillInv, NoIdReused, NEW p \in Slots, createReading(p)
  PROVE  Upheld
<1>0. p \in Procs /\ op \in [Procs -> Handler] /\ op[p] \in Handler
  BY BillTypes DEF Procs
<1>1. UNCHANGED <<rows, delivered, nextTxn, seeded, plug>>
  BY DEF createReading, net, counters
<1>2. Calm /\ \A c \in Connectors : PlugStill(c)
  BY <1>1, CalmWorld, StillIfSame
<1>3. HandlerCalm(p) /\ \A q \in Procs \ {p} : op'[q] = op[q]
  <2>1. CASE Leave(p)
    BY <1>0, <2>1, Leaves, QuietHandler
  <2>2. CASE Goto(p, "meter")
    <3>1. /\ op'[p].kind = "meter" /\ op'[p].sid = op[p].sid /\ op'[p].wh = op[p].wh
          /\ op'[p].docs = op[p].docs /\ \A q \in Procs \ {p} : op'[q] = op[q]
      BY <1>0, <2>2 DEF Goto, Handler
    <3>2. op[p].kind = "reading"
      BY DEF createReading
    <3> QED BY <3>1, <3>2 DEF HandlerCalm, Matched, Frames, Confirming
  <2> QED BY <2>1, <2>2 DEF createReading
<1> QED BY <1>2, <1>3, AllCalm, StillPlugs, SameHandler

-----------------------------------------------------------------------------
(* The saves that confirm nothing *)

(* A save of an edited copy that tallies leaves a row that does: the last    *)
(* reading and the energy are both written, or neither is.                 *)
LEMMA SaveTallies ==
  ASSUME SessionInv, \A u \in Sessions : Tallies(rows[u]),
         NEW s \in Sessions, RowBilled(s), delivered[s] \in Nat,
         NEW old \in Row, WithinMeter(s, old), Tallies(old),
         NEW w \in 0..MaxMeter, NEW y \in STOP_REASONS, NEW new, Save(s, old, new),
         \/ new \in {MarkedFailed(old, y), Stopping(old), Failed(old, y)}
         \/ /\ new \in {Metered(old, w), Finished(old, w)}
            /\ old.txn # NoTxn /\ old.start <= w
  PROVE  \A u \in Sessions : Tallies(rows'[u])
<1> DEFINE r == Saved(s, old, new)
           c == computeAmount(new)
<1>0. /\ rows \in [Sessions -> Row] /\ w \in Int /\ w # Null
      /\ old.start \in Int /\ old.last \in Int
  BY SessionInvParts, ConstantsAssumption DEF StoreInv, Row, Meters, Null
<1>1. new \in Row
  BY CopyEdits
<1>2. /\ new.start = old.start
      /\ \/ new.last = old.last /\ new.energy = old.energy
         \/ /\ new.last = w /\ new.energy = consumedWh(old.start, w)
            /\ old.txn # NoTxn /\ old.start <= w
  <2>1. CASE new \in {MarkedFailed(old, y), Stopping(old), Failed(old, y)}
    BY <2>1 DEF MarkedFailed, Stopping, Failed, Row, Tallies
  <2>2. CASE /\ new \in {Metered(old, w), Finished(old, w)}
             /\ old.txn # NoTxn /\ old.start <= w
    BY <2>2 DEF Metered, Finished, Row
  <2> QED BY <2>1, <2>2
<1>3. c.start = new.start /\ c.last = new.last /\ c.energy = new.energy
  BY <1>1, HookKeepsEnergy
<1> HIDE DEF c
<1>4. /\ r.start = rows[s].start
      /\ r.last = Keep(rows[s].last, old.last, new.last)
      /\ r.energy = Keep(rows[s].energy, old.energy, new.energy)
  BY <1>2, <1>3 DEF Saved, Merge, Keep, c
<1> HIDE DEF r
<1>5. Tallies(r)
  <2>0. Tallies(rows[s])
    OBVIOUS
  <2>1. CASE new.last = old.last /\ new.energy = old.energy
    BY <1>4, <2>0, <2>1 DEF Keep, Tallies
  <2>2. CASE /\ new.last = w /\ new.energy = consumedWh(old.start, w)
             /\ old.txn # NoTxn /\ old.start <= w
    <3>1. /\ old.start = rows[s].start /\ old.start # Null
      BY <2>2 DEF WithinMeter
    <3>2. /\ old.last # Null /\ old.start <= old.last
          /\ old.energy = old.last - old.start
      BY <1>0, <3>1 DEF Tallies, consumedWh
    <3>3. new.energy = w - old.start
      BY <1>0, <2>2, <3>1 DEF consumedWh
    <3>4. new.energy = old.energy <=> w = old.last
      BY <1>0, <3>2, <3>3
    <3>5. CASE w = old.last
      BY <1>4, <2>0, <2>2, <3>4, <3>5 DEF Keep, Tallies
    <3>6. CASE w # old.last
      <4>1. r.last = w /\ r.energy = w - r.start /\ r.start = old.start
        BY <1>4, <2>2, <3>1, <3>3, <3>4, <3>6 DEF Keep
      <4> QED BY <1>0, <2>2, <3>1, <4>1 DEF Tallies, consumedWh
    <3> QED BY <3>5, <3>6
  <2> QED BY <1>2, <2>1, <2>2
<1>6. rows' = rows \/ rows' = [rows EXCEPT ![s] = r]
  BY DEF Save, r
<1> QED BY <1>0, <1>5, <1>6

(* A stale copy saved: the readings are from one meter, whoever wrote them. *)
LEMMA OtherSaveCalm ==
  ASSUME SessionInv, BillInv, NEW p \in Procs, NEW s \in Sessions,
         UNCHANGED <<delivered, nextTxn, seeded>>,
         \/ Save(s, op[p].docs[s], MarkedFailed(op[p].docs[s], op[p].why))
         \/ Save(s, op[p].docs[s], Stopping(op[p].docs[s]))
         \/ Save(s, op[p].docs[s], Failed(op[p].docs[s], op[p].why))
         \/ Save(s, op[p].docs[s], Failed(op[p].docs[s], "ChargerDisconnected"))
         \/ /\ op[p].kind \in Matched /\ s = op[p].sid
            /\ \/ Save(s, op[p].docs[s], Metered(op[p].docs[s], op[p].wh))
               \/ Save(s, op[p].docs[s], Finished(op[p].docs[s], op[p].wh))
  PROVE  Calm
<1> DEFINE r == op[p].docs[s]
           w == op[p].wh
           y == op[p].why
<1>1. /\ r \in Row /\ w \in 0..MaxMeter /\ y \in STOP_REASONS
      /\ "ChargerDisconnected" \in STOP_REASONS
      /\ delivered \in [Sessions -> Nat] /\ nextTxn \in Nat
  BY BillTypes DEF Handler, STOP_REASONS
<1>2. WithinMeter(s, r) /\ MatchSound(op[p]) /\ \A u \in Sessions : RowBilled(u)
  BY DEF BillInv, HandlerBilled
<1>3. PICK x, n :
        /\ x \in STOP_REASONS /\ Save(s, r, n)
        /\ \/ n \in {MarkedFailed(r, x), Stopping(r), Failed(r, x)}
           \/ n \in {Metered(r, w), Finished(r, w)} /\ op[p].kind \in Matched /\ s = op[p].sid
  BY <1>1
<1>4. op[p].kind \in Matched /\ s = op[p].sid =>
        r.txn # NoTxn /\ w - r.start <= delivered[s]
  BY <1>2 DEF MatchSound
<1>5. delivered[s] \in Nat
  BY <1>1
<1> HIDE DEF r, w, y
<1>6. /\ n \in Row /\ n.amount = r.amount /\ n.txn = r.txn /\ n.start = r.start
      /\ WithinMeter(s, n)
  <2>1. CASE n \in {MarkedFailed(r, x), Stopping(r), Failed(r, x)}
    BY <1>1, <1>2, <1>3, <1>5, <2>1, EditsWithinMeter
  <2>2. CASE n \in {Metered(r, w), Finished(r, w)} /\ r.txn # NoTxn /\ w - r.start <= delivered[s]
    BY <1>1, <1>2, <1>3, <1>5, <2>2, EditsWithinMeter
  <2> QED BY <1>3, <1>4, <2>1, <2>2
<1>7. \A u \in Sessions : /\ rows'[u].txn = rows[u].txn /\ rows'[u].start = rows[u].start
                          /\ RowBilled(u)'
  BY <1>1, <1>2, <1>3, <1>6, SaveBilled
<1>8. /\ \A u \in Sessions : delivered'[u] >= delivered[u]
      /\ CounterInv => nextTxn' >= nextTxn /\ seeded'
  BY <1>1 DEF CounterInv
<1>9. ASSUME EnergyInv PROVE \A u \in Sessions : Tallies(rows'[u])
  <2>1. HandlerAbove(p) /\ \A u \in Sessions : Tallies(rows[u])
    BY <1>9 DEF EnergyInv
  <2>2. Tallies(r)
    BY <2>1 DEF HandlerAbove, r
  <2>3. op[p].kind \in Matched /\ s = op[p].sid => r.start <= w
    BY <2>1 DEF HandlerAbove, MatchAbove, r, w
  <2>4. CASE n \in {MarkedFailed(r, x), Stopping(r), Failed(r, x)}
    BY <1>1, <1>2, <1>3, <1>5, <2>1, <2>2, <2>4, SaveTallies
  <2>5. CASE n \in {Metered(r, w), Finished(r, w)} /\ r.txn # NoTxn /\ r.start <= w
    BY <1>1, <1>2, <1>3, <1>5, <2>1, <2>2, <2>5, SaveTallies
  <2> QED BY <1>3, <1>4, <2>3, <2>4, <2>5
<1> QED BY <1>7, <1>8, <1>9 DEF Calm

(* The saves of handlers that leave the plugs alone. *)
LEMMA SavesBilled ==
  ASSUME SessionInv, SessionInv', BillInv, NoIdReused, NEW p \in Procs,
         \/ markFailed(p) \/ saveStopping(p) \/ saveStopOffline(p) \/ saveMeter(p)
         \/ \E s \in Sessions : failSessions(p, s)
         \/ p = Sweeper /\ \E s \in Sessions : saveSwept(s)
  PROVE  Upheld
<1>0. op \in [Procs -> Handler] /\ op[p] \in Handler /\ HandlerInv(op[p])
  BY BillTypes
<1>1. UNCHANGED <<delivered, nextTxn, seeded, plug>>
  BY DEF markFailed, saveStopping, saveStopOffline, saveMeter, failSessions, saveSwept, net,
         counters
<1>2. CASE markFailed(p) \/ saveStopping(p) \/ saveStopOffline(p) \/ saveMeter(p)
  <2>1. PICK s \in Sessions : s = op[p].sid
    BY <1>0, <1>2 DEF markFailed, saveStopping, saveStopOffline, saveMeter, HandlerInv,
                      SessionKinds, HandlerKinds
  <2>2. \/ Save(s, op[p].docs[s], MarkedFailed(op[p].docs[s], op[p].why))
        \/ Save(s, op[p].docs[s], Stopping(op[p].docs[s]))
        \/ Save(s, op[p].docs[s], Failed(op[p].docs[s], "ChargerDisconnected"))
        \/ /\ op[p].kind \in Matched /\ s = op[p].sid
           /\ Save(s, op[p].docs[s], Metered(op[p].docs[s], op[p].wh))
    BY <1>2, <2>1 DEF markFailed, saveStopping, saveStopOffline, saveMeter, Matched
  <2>3. Calm
    BY <1>1, <2>1, <2>2, OtherSaveCalm
  <2>4. Leave(p)
    BY <1>2 DEF markFailed, saveStopping, saveStopOffline, saveMeter
  <2>5. Quiet(p) /\ \A q \in Procs \ {p} : op'[q] = op[q]
    BY <2>4, Leaves
  <2> QED BY <1>1, <2>3, <2>5, StillIfSame, QuietStep
<1>3. ASSUME NEW s \in Sessions,
             \/ failSessions(p, s)
             \/ p = Sweeper /\ saveSwept(s)
      PROVE  Upheld
  <2>1. \/ Save(s, op[p].docs[s], MarkedFailed(op[p].docs[s], op[p].why))
        \/ Save(s, op[p].docs[s], Failed(op[p].docs[s], op[p].why))
    BY <1>3 DEF failSessions, saveSwept
  <2>2. Calm
    BY <1>1, <2>1, OtherSaveCalm
  <2>3. op[p].kind = "fail" \/ op[p].kind = "sweep"
    BY <1>3 DEF failSessions, saveSwept
  <2>4. Quiet(p) /\ \A q \in Procs \ {p} : op'[q] = op[q]
    <3>1. CASE Leave(p)
      BY <3>1, Leaves
    <3>2. CASE Enter(p, [op[p] EXCEPT !.docs[s] = NoRow])
      <4> DEFINE docs == [op[p].docs EXCEPT ![s] = NoRow]
                 h == [op[p] EXCEPT !.docs = docs]
      <4>1. \A u \in Sessions : docs[u] \in {op[p].docs[u], NoRow}
        BY <1>0 DEF Handler
      <4>2. Enter(p, h)
        BY <1>0, <3>2 DEF Handler
      <4> HIDE DEF docs
      <4>3. h.kind = op[p].kind /\ h.docs = docs
        BY <1>0 DEF Handler
      <4> HIDE DEF h
      <4>4. h.kind \notin Tracked
        BY <2>3, <4>3, IdleIsQuiet
      <4> QED BY <4>1, <4>2, <4>3, <4>4, EntersQuietly
    <3> QED BY <1>3, <3>1, <3>2 DEF failSessions, saveSwept
  <2> QED BY <1>1, <2>2, <2>4, StillIfSame, QuietStep
<1> QED BY <1>2, <1>3

(* Plugs that stop, or change the phase they charge in. *)
LEMMA UnpluggedStill ==
  ASSUME SessionInv, NEW c \in Connectors,
         \/ plug'[c] = plug[c] \/ plug'[c] = Unplugged(plug[c])
         \/ plug[c].phase # "idle" /\ \E x : plug'[c] = [plug[c] EXCEPT !.phase = x]
  PROVE  PlugStill(c)
<1>1. plug[c] \in Plug
  BY BillTypes
<1> QED BY <1>1 DEF Unplugged, Plug, PlugStill

(* So does the answer to a StopTransaction. *)
LEMMA ReplyStopStill ==
  ASSUME SessionInv, NEW p \in Procs, ReplyStop(op[p])
  PROVE  \A c \in Connectors : PlugStill(c)
<1> SUFFICES ASSUME NEW c \in Connectors PROVE PlugStill(c)
  OBVIOUS
<1>1. plug'[c] = plug[c] \/ plug'[c] = Unplugged(plug[c])
  BY BillTypes DEF ReplyStop
<1> QED BY <1>1, UnpluggedStill

(* saveFinished: the last reading, and the answer. *)
LEMMA FinishedBilled ==
  ASSUME SessionInv, SessionInv', BillInv, NoIdReused, NEW p \in Slots, saveFinished(p)
  PROVE  Upheld
<1>0. p \in Procs /\ op[p] \in Handler /\ HandlerInv(op[p])
  BY BillTypes DEF Procs
<1>1. PICK s \in Sessions : s = op[p].sid
  BY <1>0 DEF saveFinished, HandlerInv, SessionKinds, HandlerKinds
<1>2. UNCHANGED <<delivered, nextTxn, seeded>>
  BY DEF saveFinished, counters
<1>3. /\ op[p].kind \in Matched /\ s = op[p].sid
      /\ Save(s, op[p].docs[s], Finished(op[p].docs[s], op[p].wh))
  BY <1>1 DEF saveFinished, Matched
<1>4. Calm
  BY <1>0, <1>2, <1>3, OtherSaveCalm
<1>5. \A c \in Connectors : PlugStill(c)
  BY <1>0, ReplyStopStill DEF saveFinished
<1>6. Quiet(p) /\ \A q \in Procs \ {p} : op'[q] = op[q]
  BY <1>0, Leaves DEF saveFinished
<1> QED BY <1>4, <1>5, <1>6, QuietStep

-----------------------------------------------------------------------------
(* Rows created, commands answered, links and time *)

(* createSession: a row without readings where there was none. *)
LEMMA CreateBilled ==
  ASSUME SessionInv, SessionInv', IdInv, BillInv, NoIdReused, NEW p \in Slots, createSession(p)
  PROVE  Upheld
<1>0. /\ p \in Procs /\ op \in [Procs -> Handler] /\ op[p] \in Handler
      /\ rows \in [Sessions -> Row] /\ delivered \in [Sessions -> Nat] /\ nextTxn \in Nat
      /\ op[p].kind = "create" /\ op[p].sid \in Sessions
  BY BillTypes DEF Procs, HandlerInv, createSession, SessionKinds, HandlerKinds
<1>1. PICK s \in Sessions : s = op[p].sid
  BY <1>0
<1>2. UNCHANGED <<delivered, nextTxn, seeded, plug>>
  BY DEF createSession, counters
<1>3. CASE Leave(p) /\ UNCHANGED <<rows, cmds>>
  BY <1>0, <1>2, <1>3, CalmWorld, StillIfSame, Leaves, QuietStep
<1> DEFINE r == NewSession(op[p].driver, op[p].con)
           docs == [op[p].docs EXCEPT ![s] = r]
           h == [op[p] EXCEPT !.kind = "awaitStart", !.docs = docs]
<1>4. CASE /\ rows' = [rows EXCEPT ![s] = r]
           /\ Enter(p, [op[p] EXCEPT !.kind = "awaitStart", !.docs[s] = r])
  <2>1. /\ r.txn = NoTxn /\ r.start = Null /\ r.last = Null /\ r.energy = 0
        /\ r.amount = Null
    BY DEF NewSession, NoRow
  <2>2. rows[s].txn = NoTxn /\ rows[s].start = Null
    <3>1. rows[s].status = "none"
      BY <1>0, <1>1, SessionInvParts DEF FreshInv
    <3>2. rows[s].txn = NoTxn
      BY <3>1 DEF IdInv
    <3>3. WithinMeter(s, rows[s])
      BY DEF BillInv, RowBilled
    <3> QED BY <3>2, <3>3 DEF WithinMeter
  <2> HIDE DEF r
  <2>3. ASSUME NEW u \in Sessions
        PROVE  /\ rows'[u].txn = rows[u].txn /\ rows'[u].start = rows[u].start
               /\ RowBilled(u)'
    <3>1. CASE u = s
      <4>1. rows'[u] = r /\ delivered'[u] \in Nat
        BY <1>0, <1>2, <1>4, <3>1
      <4> QED BY <2>1, <2>2, <3>1, <4>1 DEF RowBilled, WithinMeter
    <3>2. CASE u # s
      <4>1. rows'[u] = rows[u] /\ RowBilled(u)
        BY <1>0, <1>4, <3>2 DEF BillInv
      <4> QED BY <1>2, <4>1 DEF RowBilled, WithinMeter
    <3> QED BY <3>1, <3>2
  <2>4. /\ \A u \in Sessions : delivered'[u] >= delivered[u]
        /\ CounterInv => nextTxn' >= nextTxn /\ seeded'
    BY <1>0, <1>2 DEF CounterInv
  <2>5. Calm
    <3>1. Tallies(r)
      BY <2>1 DEF Tallies, consumedWh
    <3>2. EnergyInv => \A u \in Sessions : Tallies(rows'[u])
      BY <1>0, <1>4, <3>1 DEF EnergyInv
    <3> QED BY <1>2, <2>3, <2>4, <3>2 DEF Calm
  <2>6. \A u \in Sessions : docs[u] \in {op[p].docs[u], rows'[u]}
    BY <1>0, <1>4 DEF Handler
  <2>7. Enter(p, h)
    BY <1>0, <1>4 DEF Handler
  <2> HIDE DEF docs
  <2>8. h.kind = "awaitStart" /\ h.docs = docs
    BY <1>0 DEF Handler
  <2> HIDE DEF h
  <2>9. h.kind \notin Tracked
    BY <2>8, IdleIsQuiet
  <2>10. Quiet(p) /\ \A q \in Procs \ {p} : op'[q] = op[q]
    BY <1>0, <2>6, <2>7, <2>8, <2>9, EntersQuietly
  <2> QED BY <1>0, <1>2, <2>5, <2>10, StillIfSame, QuietStep
<1> QED BY <1>1, <1>3, <1>4 DEF createSession

(* The caller of a command, where there is one, goes on quietly. *)
LEMMA AnswerQuiet ==
  ASSUME SessionInv, NEW m \in cmds, NEW h, Answer(m, h),
         m.slot \in Slots =>
           h.kind \notin Tracked /\ (h.docs = op[m.slot].docs \/ h.docs = NoDocs)
  PROVE  \A q \in Procs : op'[q] = op[q] \/ Quiet(q)
<1>1. CASE op' = op
  BY <1>1
<1>2. CASE m.slot \in Slots /\ op' = [op EXCEPT ![m.slot] = h]
  <2>1. PICK p \in Procs : p = m.slot
    BY <1>2 DEF Procs
  <2>2. op'[p] = h /\ \A q \in Procs \ {p} : op'[q] = op[q]
    BY <1>2, <2>1, BillTypes
  <2>3. \A s \in Sessions : h.docs[s] \in {op[p].docs[s], NoRow}
    BY <1>2, <2>1, IdleIsQuiet
  <2>4. Quiet(p)
    BY <1>2, <2>2, <2>3 DEF Quiet
  <2> QED BY <2>2, <2>4
<1> QED BY <1>1, <1>2 DEF Answer

(* A command refused, or accepted: at most a plug prepares. *)
LEMMA AnswersBilled ==
  ASSUME SessionInv, SessionInv', BillInv, NoIdReused, NEW m \in cmds,
         chargerRejects(m) \/ chargerAcceptsStop(m) \/ chargerAcceptsStart(m)
  PROVE  Upheld
<1>0. /\ m \in Command /\ plug \in [Connectors -> Plug]
      /\ m.slot \in Slots => op[m.slot] \in Handler
  BY BillTypes DEF Procs
<1>1. UNCHANGED <<rows, delivered, nextTxn, seeded>>
  BY DEF chargerRejects, chargerAcceptsStop, chargerAcceptsStart, db, counters
<1>2. \A q \in Procs : op'[q] = op[q] \/ Quiet(q)
  <2>1. PICK h :
          /\ Answer(m, h)
          /\ \/ h = Idle
             \/ h = [op[m.slot] EXCEPT !.kind = "markFailed", !.why = "Rejected"]
             \/ h = [op[m.slot] EXCEPT !.kind = "stopping"]
    BY DEF chargerRejects, chargerAcceptsStop, chargerAcceptsStart
  <2>2. m.slot \in Slots =>
          /\ h.kind \in {"idle", "markFailed", "stopping"}
          /\ h.docs = op[m.slot].docs \/ h.docs = NoDocs
    BY <1>0, <2>1, IdleIsQuiet DEF Handler
  <2>3. m.slot \in Slots => h.kind \notin Tracked
    BY <2>2, IdleIsQuiet
  <2> QED BY <2>1, <2>2, <2>3, AnswerQuiet
<1>3. ASSUME NEW c \in Connectors PROVE PlugStill(c)
  <2>1. CASE plug' = plug
    BY <2>1, StillIfSame
  <2>2. CASE chargerAcceptsStop(m)
    <3>1. PICK x : plug' = [plug EXCEPT ![m.con] = [plug[m.con] EXCEPT !.phase = x]]
      BY <1>0, <2>2 DEF chargerAcceptsStop
    <3>2. plug'[c] = plug[c] \/ (plug[c].phase # "idle" /\ plug'[c] = [plug[c] EXCEPT !.phase = x])
      BY <1>0, <2>2, <3>1 DEF chargerAcceptsStop
    <3> QED BY <3>2, UnpluggedStill
  <2>3. CASE chargerAcceptsStart(m)
    <3>1. PICK d \in Connectors, s \in Sessions : d = m.con /\ s = m.sid
      BY <1>0 DEF Command
    <3> DEFINE b == [plug[d].begin EXCEPT ![s] = "preparing"]
               pl == [plug[d] EXCEPT !.begin = b]
    <3>2. plug[d] \in Plug
      BY <1>0
    <3>3. plug' = [plug EXCEPT ![d] = pl]
      BY <1>0, <2>3, <3>1, <3>2 DEF chargerAcceptsStart, Plug
    <3>4. \A u \in Sessions : b[u] = "starting" => plug[d].begin[u] = "starting"
      BY <3>2 DEF Plug
    <3> HIDE DEF b
    <3>5. /\ pl.begin = b /\ pl.phase = plug[d].phase /\ pl.meter = plug[d].meter
          /\ pl.sid = plug[d].sid /\ pl.txn = plug[d].txn /\ pl.base = plug[d].base
      BY <3>2 DEF Plug
    <3> HIDE DEF pl
    <3> QED BY <1>0, <3>3, <3>4, <3>5 DEF PlugStill
  <2> QED BY <2>1, <2>2, <2>3 DEF chargerRejects
<1> QED BY <1>1, <1>2, <1>3, CalmWorld, QuietStep

(* What the charge point does on its own, and time. *)
LEMMA LocalBilled ==
  ASSUME SessionInv, SessionInv', BillInv, NoIdReused,
         \/ \E c \in Connectors, s \in Sessions : authorizeIdTag(c, s)
         \/ \E c \in Connectors : endOffline(c)
         \/ \E ch \in Chargers : connect(ch) \/ clearFaults(ch)
         \/ \E s \in Sessions : elapse(s)
         \/ UNCHANGED vars
  PROVE  Upheld
<1>0. plug \in [Connectors -> Plug]
  BY BillTypes
<1>1. UNCHANGED <<rows, delivered, nextTxn, seeded, op>>
  BY DEF authorizeIdTag, endOffline, connect, clearFaults, elapse, db, net, counters, vars
<1>2. ASSUME NEW d \in Connectors PROVE PlugStill(d)
  <2>1. CASE plug' = plug
    BY <2>1, StillIfSame
  <2>2. ASSUME NEW c \in Connectors, endOffline(c) PROVE PlugStill(d)
    <3>1. plug'[d] = plug[d] \/ plug'[d] = Unplugged(plug[d])
      BY <1>0, <2>2 DEF endOffline
    <3> QED BY <3>1, UnpluggedStill
  <2>3. ASSUME NEW c \in Connectors, NEW s \in Sessions, authorizeIdTag(c, s)
        PROVE  PlugStill(d)
    <3>1. PICK x \in {"authorized", "no"} : plug' = [plug EXCEPT ![c].begin[s] = x]
      BY <2>3 DEF authorizeIdTag
    <3> DEFINE b == [plug[c].begin EXCEPT ![s] = x]
               pl == [plug[c] EXCEPT !.begin = b]
    <3>2. plug[c] \in Plug
      BY <1>0
    <3>3. plug' = [plug EXCEPT ![c] = pl]
      BY <1>0, <3>1, <3>2 DEF Plug
    <3>4. \A u \in Sessions : b[u] = "starting" => plug[c].begin[u] = "starting"
      BY <3>2 DEF Plug
    <3> HIDE DEF b
    <3>5. /\ pl.begin = b /\ pl.phase = plug[c].phase /\ pl.meter = plug[c].meter
          /\ pl.sid = plug[c].sid /\ pl.txn = plug[c].txn /\ pl.base = plug[c].base
      BY <3>2 DEF Plug
    <3> HIDE DEF pl
    <3> QED BY <1>0, <3>3, <3>4, <3>5 DEF PlugStill
  <2>4. CASE \/ \E ch \in Chargers : connect(ch) \/ clearFaults(ch)
             \/ \E s \in Sessions : elapse(s)
             \/ UNCHANGED vars
    <3>1. plug' = plug
      BY <2>4 DEF connect, clearFaults, elapse, net, vars
    <3> QED BY <2>1, <3>1
  <2> QED BY <2>2, <2>3, <2>4
<1> QED BY <1>1, <1>2, CalmWorld, QuietStep

(* A fault unplugs, and a handler looks for the sessions to end. *)
LEMMA FaultsBilled ==
  ASSUME SessionInv, SessionInv', BillInv, NoIdReused, NEW p \in Slots,
         \/ \E c \in Connectors : faultConnector(p, c)
         \/ \E ch \in Chargers : faultChargePoint(p, ch)
  PROVE  Upheld
<1>0. p \in Procs /\ plug \in [Connectors -> Plug]
  BY BillTypes DEF Procs
<1>1. UNCHANGED <<rows, delivered, nextTxn, seeded>>
  BY DEF faultConnector, faultChargePoint, counters
<1>2. ASSUME NEW d \in Connectors PROVE PlugStill(d)
  <2>1. plug'[d] = plug[d] \/ plug'[d] = Unplugged(plug[d])
    BY <1>0 DEF faultConnector, faultChargePoint
  <2> QED BY <2>1, UnpluggedStill
<1>3. Quiet(p) /\ \A q \in Procs \ {p} : op'[q] = op[q]
  <2>1. PICK h : Enter(p, h) /\ h.kind = "rxFail" /\ h.docs = NoDocs
    <3>1. ASSUME NEW c \in Connectors, faultConnector(p, c)
          PROVE  \E h : Enter(p, h) /\ h.kind = "rxFail" /\ h.docs = NoDocs
      <4> DEFINE h == [Idle EXCEPT !.kind = "rxFail", !.why = "HardwareFault", !.con = c]
      <4>1. Enter(p, h)
        BY <3>1 DEF faultConnector
      <4>2. h.kind = "rxFail" /\ h.docs = NoDocs
        BY DEF Idle
      <4> HIDE DEF h
      <4> QED BY <4>1, <4>2
    <3>2. ASSUME NEW ch \in Chargers, faultChargePoint(p, ch)
          PROVE  \E h : Enter(p, h) /\ h.kind = "rxFail" /\ h.docs = NoDocs
      <4> DEFINE h == [Idle EXCEPT !.kind = "rxFail", !.why = "HardwareFault", !.rest = {ch}]
      <4>1. Enter(p, h)
        BY <3>2 DEF faultChargePoint
      <4>2. h.kind = "rxFail" /\ h.docs = NoDocs
        BY DEF Idle
      <4> HIDE DEF h
      <4> QED BY <4>1, <4>2
    <3> QED BY <3>1, <3>2
  <2>2. h.kind \notin Tracked /\ \A s \in Sessions : h.docs[s] = NoRow
    BY <2>1, IdleIsQuiet
  <2> QED BY <1>0, <2>1, <2>2, EntersQuietly
<1> QED BY <1>1, <1>2, <1>3, CalmWorld, QuietStep

(* What a lost link leaves of a plug: it charges on, or stops. *)
LEMMA DroppedStill ==
  ASSUME ~ResendStart, SessionInv, IdInv, NEW c \in Connectors, plug'[c] = Dropped(plug[c])
  PROVE  PlugStill(c)
<1>0. plug \in [Connectors -> Plug]
  BY BillTypes
<1>1. /\ \A s \in Sessions : plug'[c].begin[s] = "no"
      /\ plug'[c].phase # "idle" =>
           /\ plug[c].phase # "idle"
           /\ plug'[c].sid = plug[c].sid /\ plug'[c].txn = plug[c].txn
  BY DroppedSteady
<1>2. Dropped(plug[c]).meter = plug[c].meter /\ Dropped(plug[c]).base = plug[c].base
  <2> DEFINE b == [s \in Sessions |->
                     IF plug[c].begin[s] = "lost"
                          \/ (ResendStart /\ plug[c].begin[s] = "starting")
                     THEN "lost" ELSE "no"]
             q == [plug[c] EXCEPT !.begin = b]
  <2>1. Dropped(plug[c]) = IF plug[c].phase \in {"asked", "ending"}
                           THEN Unplugged(q) ELSE q
    BY DEF Dropped
  <2> HIDE DEF b
  <2>2. /\ q.meter = plug[c].meter /\ Unplugged(q).meter = plug[c].meter
        /\ q.base = plug[c].base /\ Unplugged(q).base = plug[c].base
    BY <1>0 DEF Plug, Unplugged
  <2> HIDE DEF q
  <2> QED BY <2>1, <2>2
<1> QED BY <1>1, <1>2 DEF PlugStill

(* A lost link; the handlers that would have answered on it go on. *)
LEMMA DisconnectBilled ==
  ASSUME ~ResendStart, SessionInv, SessionInv', IdInv, BillInv, NoIdReused, NEW p \in Slots,
         NEW ch \in Chargers, disconnect(p, ch)
  PROVE  Upheld
<1>0. p \in Procs /\ op \in [Procs -> Handler] /\ plug \in [Connectors -> Plug]
  BY BillTypes DEF Procs
<1>1. UNCHANGED <<rows, delivered, nextTxn, seeded>>
  BY DEF disconnect, counters
<1>2. ASSUME NEW c \in Connectors PROVE PlugStill(c)
  <2>1. plug'[c] = plug[c] \/ plug'[c] = Dropped(plug[c])
    BY <1>0 DEF disconnect
  <2>2. CASE plug'[c] = Dropped(plug[c])
    BY <2>2, DroppedStill
  <2>3. CASE plug'[c] = plug[c]
    BY <2>3 DEF PlugStill
  <2> QED BY <2>1, <2>2, <2>3
<1>3. ASSUME NEW q \in Procs
      PROVE  op'[q] = op[q] \/ op'[q] = [op[q] EXCEPT !.con = NoConnector] \/ Quiet(q)
  <2>1. CASE q # p
    BY <1>0, <2>1 DEF disconnect, Orphaned
  <2>2. CASE q = p
    <3>1. op'[q].kind = "rxFail" /\ op'[q].docs = NoDocs
      BY <1>0, <2>2 DEF disconnect, Orphaned, Idle
    <3> QED BY <3>1, IdleIsQuiet DEF Quiet
  <2> QED BY <2>1, <2>2
<1> QED BY <1>1, <1>2, <1>3, CalmWorld, QuietStep

\* A restart: every handler is gone, but for the one that ends what was left open.
LEMMA RestartBilled ==
  ASSUME ~ResendStart, SessionInv, SessionInv', IdInv, BillInv, NoIdReused,
         NEW p \in Slots, restart(p)
  PROVE  Upheld
<1>1. UNCHANGED <<rows, delivered>>
  BY DEF restart
<1>2. restarts' # 0
  <2>1. restarts \in Nat
    BY ConstantsAssumption DEF SessionInv, TypeOK
  <2>2. restarts' = restarts + 1
    BY DEF restart
  <2> QED BY <2>1, <2>2
<1>3. \A c \in Connectors : PlugStill(c)
  BY DroppedStill DEF restart
<1>4. ASSUME NEW q \in Procs PROVE Quiet(q)
  <2>1. PICK h \in {op'[q]} : h.kind \in {"idle", "rxFail"} /\ h.docs = NoDocs
    BY DEF restart, Idle
  <2> QED BY <2>1, IdleIsQuiet DEF Quiet
<1> QED BY <1>1, <1>2, <1>3, <1>4, CalmWorld, QuietStep

\* The counter seeded after one: it says nothing of ids until then.
LEMMA SeedBilled ==
  ASSUME SessionInv, SessionInv', BillInv, NoIdReused, seedAtBoot
  PROVE  Upheld
<1>1. UNCHANGED <<rows, delivered, plug, op>>
  BY DEF seedAtBoot, db, net
<1>2. ~CounterInv
  BY DEF seedAtBoot, CounterInv
<1> QED BY <1>1, <1>2, CalmWorld, StillIfSame, QuietStep

-----------------------------------------------------------------------------
(* Energy, and the frames that report it *)

(* deliverEnergy: the meter and what is delivered grow together. *)
LEMMA EnergyBilled ==
  ASSUME SessionInv, SessionInv', BillInv, NoIdReused, NEW c \in Connectors, deliverEnergy(c)
  PROVE  Upheld
<1>0. /\ plug \in [Connectors -> Plug] /\ delivered \in [Sessions -> Nat]
      /\ delivered' \in [Sessions -> Nat] /\ nextTxn \in Nat
      /\ rows \in [Sessions -> Row] /\ PricePerKwh \in Nat
      /\ plug[c] \in Plug /\ plug[c].meter \in Int
  BY BillTypes, SessionInvParts, ConstantsAssumption DEF WireInv, Plug
<1>1. UNCHANGED <<rows, nextTxn, seeded, op>>
  BY DEF deliverEnergy, db, counters
<1>2. /\ \A s \in Sessions : delivered'[s] >= delivered[s]
      /\ \A s \in Sessions : s = plug[c].sid \/ plug[c].begin[s] = "starting" =>
           delivered'[s] - delivered[s] = 1
  BY <1>0 DEF deliverEnergy
<1>3. \A d \in Connectors :
        /\ plug'[d].begin = plug[d].begin /\ plug'[d].phase = plug[d].phase
        /\ plug'[d].sid = plug[d].sid /\ plug'[d].txn = plug[d].txn
        /\ plug'[d].meter = IF d = c THEN plug[d].meter + 1 ELSE plug[d].meter
        /\ plug'[d].base = plug[d].base
  <2> DEFINE pl == [plug[c] EXCEPT !.meter = plug[c].meter + 1]
  <2>1. plug' = [plug EXCEPT ![c] = pl]
    BY <1>0 DEF deliverEnergy
  <2>2. /\ pl.begin = plug[c].begin /\ pl.phase = plug[c].phase
        /\ pl.sid = plug[c].sid /\ pl.txn = plug[c].txn /\ pl.meter = plug[c].meter + 1
        /\ pl.base = plug[c].base
    BY <1>0 DEF Plug
  <2> HIDE DEF pl
  <2> QED BY <1>0, <2>1, <2>2
<1>4. ASSUME NEW s \in Sessions PROVE RowBilled(s)'
  <2>1. RowBilled(s)
    BY DEF BillInv
  <2>2. /\ delivered[s] \in Nat /\ delivered'[s] \in Nat /\ delivered'[s] >= delivered[s]
        /\ rows[s].last \in Int /\ rows[s].start \in Int /\ rows[s].energy \in Int
        /\ rows[s].amount \in Int
    BY <1>0, <1>2, ConstantsAssumption DEF Row, Meters, Null
  <2>3. /\ calculateAmountPaise(delivered[s], PricePerKwh) \in Nat
        /\ calculateAmountPaise(delivered'[s], PricePerKwh) \in Nat
        /\ calculateAmountPaise(delivered[s], PricePerKwh)
             <= calculateAmountPaise(delivered'[s], PricePerKwh)
    <3> DEFINE d == delivered[s]
               e == delivered'[s]
    <3>1. PricePerKwh \in Nat /\ d \in Nat /\ e \in Nat /\ d <= e /\ e <= e
      BY <1>0, <2>2
    <3> HIDE DEF d, e
    <3>2. calculateAmountPaise(e, PricePerKwh) \in Nat
      BY <3>1, PriceGrows
    <3>3. /\ calculateAmountPaise(d, PricePerKwh) \in Nat
          /\ calculateAmountPaise(d, PricePerKwh) <= calculateAmountPaise(e, PricePerKwh)
      BY <3>1, PriceGrows
    <3> QED BY <3>2, <3>3 DEF d, e
  <2>4. WithinMeter(s, rows[s])'
    BY <1>1, <2>1, <2>2 DEF RowBilled, WithinMeter
  <2>5. rows'[s].amount # Null =>
          rows'[s].amount <= calculateAmountPaise(delivered'[s], PricePerKwh)
    BY <1>1, <2>1, <2>2, <2>3 DEF RowBilled
  <2> QED BY <2>4, <2>5 DEF RowBilled
<1>5. Calm
  <2>1. EnergyInv => \A s \in Sessions : Tallies(rows'[s])
    BY <1>1 DEF EnergyInv
  <2>2. CounterInv => nextTxn' >= nextTxn /\ seeded'
    BY <1>0, <1>1 DEF CounterInv
  <2> QED BY <1>1, <1>2, <1>4, <2>1, <2>2 DEF Calm
<1>6. ASSUME NEW d \in Connectors, NEW s \in Sessions,
             s = plug[d].sid \/ plug[d].begin[s] = "starting"
      PROVE  plug'[d].meter - plug[d].meter <= delivered'[s] - delivered[s]
  <2>1. plug[d].meter \in Int /\ delivered[s] \in Nat /\ delivered'[s] \in Nat
    BY <1>0, ConstantsAssumption DEF Plug
  <2> QED BY <1>2, <1>3, <1>6, <2>1
<1>7. ASSUME NEW d \in Connectors PROVE PlugCalm(d) /\ NoReset(d)
  <2>1. plug[d].meter \in Int
    BY <1>0, ConstantsAssumption DEF Plug
  <2>2. NoReset(d)
    BY <1>3, <2>1 DEF NoReset
  <2> QED BY <1>3, <1>6, <2>2 DEF PlugCalm
<1>8. ASSUME NEW q \in Procs PROVE HandlerCalm(q)
  <2>1. op[q].kind \in Confirming => op[q].sid \in Sessions
    BY BillTypes DEF HandlerInv, SessionKinds, HandlerKinds, Confirming
  <2>2. op'[q] = op[q]
    BY <1>1
  <2>3. ASSUME op[q].kind \in Confirming, NEW d \in Connectors, op[q].con = d,
               plug'[d].begin[op[q].sid] = "starting"
        PROVE  /\ plug[d].begin[op[q].sid] = "starting"
               /\ plug'[d].meter - plug[d].meter
                    <= delivered'[op[q].sid] - delivered[op[q].sid]
    BY <1>3, <1>6, <2>1, <2>3
  <2> QED BY <2>2, <2>3 DEF HandlerCalm
<1> QED BY <1>5, <1>7, <1>8, AllCalm

(* A frame a charging plug sends names its transaction, at most its meter. *)
LEMMA FrameSent ==
  ASSUME SessionInv, SessionInv', BillInv, NoIdReused,
         UNCHANGED <<rows, delivered, nextTxn, seeded>>,
         \A d \in Connectors : PlugStill(d),
         NEW p \in Procs, NEW c \in Connectors, plug[c].phase # "idle",
         NEW h, Enter(p, h), h.kind \in Frames, h.txn = plug[c].txn,
         h.wh \in Int, plug[c].base <= plug[c].meter => plug[c].base <= h.wh,
         h.wh <= plug[c].meter, h.docs = NoDocs
  PROVE  Upheld
<1>0. /\ op' = [op EXCEPT ![p] = h] /\ op \in [Procs -> Handler]
      /\ delivered \in [Sessions -> Nat] /\ rows \in [Sessions -> Row]
      /\ plug[c].meter \in Int
  BY BillTypes, ConstantsAssumption DEF Enter, Plug
<1>1. op'[p] = h /\ \A q \in Procs \ {p} : op'[q] = op[q]
  BY <1>0
<1>2. Calm /\ \A d \in Connectors : PlugCalm(d) /\ NoReset(d)
  BY CalmWorld, StillPlugs
<1>3. \A q \in Procs \ {p} : HandlerCalm(q)
  BY <1>1, <1>2, SameHandler
<1>4. PlugBilled(c)
  BY DEF BillInv
<1>5. FrameSound(h)'
  <2>1. ASSUME NEW s \in Sessions, rows[s].txn = h.txn
        PROVE  h.wh - rows[s].start <= delivered[s]
    <3>1. plug[c].meter - rows[s].start <= delivered[s]
      BY <1>4, <2>1 DEF PlugBilled
    <3>2. rows[s].start \in Int /\ delivered[s] \in Nat
      BY <1>0, ConstantsAssumption DEF Row, Meters, Null
    <3> QED BY <1>0, <3>1, <3>2
  <2> QED BY <1>4, <2>1 DEF PlugBilled, FrameSound
<1>6. HandlerBilled(p)'
  <2>1. \A s \in Sessions : op'[p].docs[s] = NoRow
    BY <1>1, IdleIsQuiet
  <2>2. \A s \in Sessions : WithinMeter(s, op[p].docs[s])'
    BY <1>2, <2>1, CopyCalm
  <2>3. MatchSound(op[p])' /\ StartSound(op[p])'
    BY <1>1 DEF MatchSound, StartSound, Frames, Matched, Confirming
  <2>4. FrameSound(op[p])'
    BY <1>1, <1>5 DEF FrameSound
  <2> QED BY <2>2, <2>3, <2>4 DEF HandlerBilled
<1>7. ASSUME CounterInv
      PROVE  /\ HandlerCounted(p)'
             /\ \A q \in Procs \ {p} : IdsApart(p, q)' /\ IdsApart(q, p)'
  <2>1. PlugCounted(c) /\ \A q \in Procs : HandlerCounted(q)
    BY <1>7 DEF CounterInv
  <2>2. \A q \in Procs : op[q].kind = "confirm" => op[q].txn # plug[c].txn
    BY <2>1 DEF HandlerCounted
  <2>3. plug[c].txn <= nextTxn'
    BY <2>1 DEF PlugCounted
  <2> QED BY <1>1, <2>2, <2>3 DEF IdsApart, HandlerCounted, Frames
<1>8. ASSUME EnergyInv, NoIdReused'
      PROVE  /\ HandlerAbove(p)' /\ \A q \in Procs \ {p} : StartAbove(op[q])'
             /\ \A d \in Connectors : PlugAbove(d)'
  <2>1. \A d \in Connectors : PlugAbove(d)'
    BY <1>2, <1>8, PlugAboveKept
  <2>2. \A q \in Procs \ {p} : StartAbove(op[q])'
    BY <1>2, <1>3, <1>8, StartAboveKept
  <2>3. \A s \in Sessions : rows[s].txn = h.txn => rows[s].start <= h.wh
    <3> SUFFICES ASSUME NEW s \in Sessions, rows[s].txn = h.txn
                 PROVE  rows[s].start <= h.wh
      OBVIOUS
    <3>1. PlugAbove(c)
      BY <1>8 DEF EnergyInv
    <3>2. rows[s].start <= plug[c].base /\ plug[c].base <= h.wh
      BY <3>1 DEF PlugAbove
    <3>3. rows[s].start \in Int /\ plug[c].base \in Int
      BY <1>0, BillTypes, ConstantsAssumption DEF Row, Meters, Null, Plug
    <3> QED BY <3>2, <3>3
  <2>4. FrameAbove(op[p])'
    BY <1>1, <2>3 DEF FrameAbove
  <2>5. MatchAbove(op[p])' /\ StartAbove(op[p])'
    BY <1>1 DEF MatchAbove, StartAbove, Frames, Matched, Confirming
  <2>6. \A s \in Sessions : Tallies(op'[p].docs[s])
    <3>1. Tallies(NoRow)
      BY DEF Tallies, NoRow, consumedWh
    <3> QED BY <1>1, <3>1, IdleIsQuiet
  <2> QED BY <2>1, <2>2, <2>4, <2>5, <2>6 DEF HandlerAbove
<1> QED BY <1>2, <1>3, <1>6, <1>7, <1>8, OneMoves

(* sendMeterValues: an earlier reading, or the present one. *)
LEMMA MeterValuesSent ==
  ASSUME SessionInv, SessionInv', BillInv, NoIdReused, NEW p \in Slots, NEW c \in Connectors,
         NEW wh \in 0..MaxMeter, sendMeterValues(p, c, wh)
  PROVE  Upheld
<1>0. p \in Procs /\ plug[c] \in Plug /\ plug[c].meter \in Int /\ plug[c].base \in Int
  BY BillTypes, ConstantsAssumption DEF Procs, Plug
<1>1. UNCHANGED <<rows, delivered, nextTxn, seeded, plug>>
  BY DEF sendMeterValues, db, net, counters
<1> DEFINE h == [Idle EXCEPT !.kind = "rxMeter", !.txn = plug[c].txn, !.wh = wh]
<1>2. Enter(p, h)
  BY DEF sendMeterValues
<1>3. h.kind = "rxMeter" /\ h.txn = plug[c].txn /\ h.wh = wh /\ h.docs = NoDocs
  BY DEF Idle
<1>4. wh \in Int /\ wh <= plug[c].meter /\ plug[c].base <= wh /\ plug[c].phase # "idle"
  BY <1>0 DEF sendMeterValues
<1>5. h.kind \in Frames
  BY <1>3 DEF Frames
<1> HIDE DEF h
<1> QED BY <1>0, <1>1, <1>2, <1>3, <1>4, <1>5, StillIfSame, FrameSent

(* sendStopTransaction: the present one, of a plug that ends. *)
LEMMA StopTransactionSent ==
  ASSUME SessionInv, SessionInv', BillInv, NoIdReused, NEW p \in Slots, NEW c \in Connectors,
         sendStopTransaction(p, c)
  PROVE  Upheld
<1>0. /\ p \in Procs /\ plug \in [Connectors -> Plug]
      /\ plug[c] \in Plug /\ plug[c].meter \in Int
  BY BillTypes, ConstantsAssumption DEF Procs, Plug
<1>1. UNCHANGED <<rows, delivered, nextTxn, seeded>>
  BY DEF sendStopTransaction, counters
<1>2. ASSUME NEW d \in Connectors PROVE PlugStill(d)
  <2>1. /\ plug' = [plug EXCEPT ![c] = [plug[c] EXCEPT !.phase = "ending"]]
        /\ plug[c].phase # "idle"
    BY <1>0 DEF sendStopTransaction
  <2>2. \/ plug'[d] = plug[d]
        \/ plug[d].phase # "idle" /\ plug'[d] = [plug[d] EXCEPT !.phase = "ending"]
    BY <1>0, <2>1
  <2> QED BY <2>2, UnpluggedStill
<1> DEFINE h == [Idle EXCEPT !.kind = "rxStop", !.con = c, !.txn = plug[c].txn,
                             !.wh = plug[c].meter]
<1>3. Enter(p, h)
  BY DEF sendStopTransaction
<1>4. h.kind = "rxStop" /\ h.txn = plug[c].txn /\ h.wh = plug[c].meter /\ h.docs = NoDocs
  BY DEF Idle
<1>5. plug[c].phase # "idle"
  BY DEF sendStopTransaction
<1>6. h.kind \in Frames /\ h.wh \in Int /\ h.wh <= plug[c].meter
  BY <1>0, <1>4 DEF Frames
<1> HIDE DEF h
<1> QED BY <1>0, <1>1, <1>2, <1>3, <1>4, <1>5, <1>6, FrameSent

(* A frame that finds the row of its id. *)
LEMMA FrameFinds ==
  ASSUME SessionInv, SessionInv', BillInv, NoIdReused,
         UNCHANGED <<rows, delivered, nextTxn, seeded, plug>>,
         NEW p \in Procs, op[p].kind \in Frames,
         NEW s \in Sessions, rows[s].txn = op[p].txn,
         NEW k, k \in Matched,
         Enter(p, [op[p] EXCEPT !.kind = k, !.sid = s, !.docs[s] = rows[s]])
  PROVE  Upheld
<1>0. op \in [Procs -> Handler] /\ op[p] \in Handler
  BY BillTypes
<1> DEFINE docs == [op[p].docs EXCEPT ![s] = rows[s]]
           h == [op[p] EXCEPT !.kind = k, !.sid = s, !.docs = docs]
<1>1. \A u \in Sessions : docs[u] = IF u = s THEN rows'[s] ELSE op[p].docs[u]
  BY <1>0 DEF Handler
<1>2. op' = [op EXCEPT ![p] = h]
  BY <1>0 DEF Enter, Handler
<1> HIDE DEF docs
<1>3. h.kind = k /\ h.sid = s /\ h.wh = op[p].wh /\ h.docs = docs
  BY <1>0 DEF Handler
<1> HIDE DEF h
<1>4. op'[p] = h /\ \A q \in Procs \ {p} : op'[q] = op[q]
  BY <1>0, <1>2
<1>5. /\ Calm /\ \A c \in Connectors : PlugStill(c)
      /\ \A c \in Connectors : PlugCalm(c) /\ NoReset(c)
  BY CalmWorld, StillIfSame, StillPlugs
<1>6. \A q \in Procs \ {p} : HandlerCalm(q)
  BY <1>4, <1>5, SameHandler
<1>7. h.kind \notin Frames /\ h.kind \notin Confirming
  BY <1>3 DEF Frames, Matched, Confirming
<1>8. FrameSound(op[p])
  BY DEF BillInv, HandlerBilled
<1>9. HandlerBilled(p)'
  <2>1. \A u \in Sessions : WithinMeter(u, op[p].docs[u])'
    BY <1>1, <1>3, <1>4, <1>5, CopyCalm
  <2>2. /\ h.docs[s].txn # NoTxn /\ h.wh - h.docs[s].start <= delivered[s]
    BY <1>1, <1>3, <1>8 DEF FrameSound
  <2>3. MatchSound(op[p])'
    BY <1>3, <1>4, <2>2 DEF MatchSound
  <2>4. FrameSound(op[p])' /\ StartSound(op[p])'
    BY <1>4, <1>7 DEF FrameSound, StartSound, Confirming
  <2> QED BY <2>1, <2>3, <2>4 DEF HandlerBilled
<1>10. HandlerCounted(p)' /\ \A q \in Procs \ {p} : IdsApart(p, q)' /\ IdsApart(q, p)'
  BY <1>4, <1>7 DEF IdsApart, HandlerCounted, Confirming
<1>11. ASSUME EnergyInv, NoIdReused'
       PROVE  /\ HandlerAbove(p)' /\ \A q \in Procs \ {p} : StartAbove(op[q])'
              /\ \A c \in Connectors : PlugAbove(c)'
  <2>1. \A c \in Connectors : PlugAbove(c)'
    BY <1>5, <1>11, PlugAboveKept
  <2>2. \A q \in Procs \ {p} : StartAbove(op[q])'
    BY <1>5, <1>6, <1>11, StartAboveKept
  <2>3. HandlerAbove(p) /\ Tallies(rows'[s])
    BY <1>11 DEF EnergyInv
  <2>4. \A u \in Sessions : Tallies(op'[p].docs[u])
    BY <1>1, <1>3, <1>4, <2>3 DEF HandlerAbove
  <2>5. MatchAbove(op[p])'
    BY <1>1, <1>3, <1>4, <2>3 DEF HandlerAbove, FrameAbove, MatchAbove
  <2>6. FrameAbove(op[p])' /\ StartAbove(op[p])'
    BY <1>4, <1>7 DEF FrameAbove, StartAbove
  <2> QED BY <2>1, <2>2, <2>4, <2>5, <2>6 DEF HandlerAbove
<1> QED BY <1>5, <1>6, <1>9, <1>10, <1>11, OneMoves

(* onMeterValues: the row of the id, or none. *)
LEMMA MeterValuesFound ==
  ASSUME SessionInv, SessionInv', BillInv, NoIdReused, NEW p \in Slots, onMeterValues(p)
  PROVE  Upheld
<1>0. p \in Procs
  BY DEF Procs
<1>1. UNCHANGED <<rows, delivered, nextTxn, seeded, plug>>
  BY DEF onMeterValues, db, net, counters
<1>2. CASE Leave(p)
  BY <1>0, <1>1, <1>2, CalmWorld, StillIfSame, Leaves, QuietStep
<1>3. ASSUME NEW s \in OpenWithTxn(op[p].txn),
             Enter(p, [op[p] EXCEPT !.kind = "reading", !.sid = s, !.docs[s] = rows[s]])
      PROVE  Upheld
  <2>1. s \in Sessions /\ rows[s].txn = op[p].txn
    BY DEF OpenWithTxn
  <2>2. op[p].kind \in Frames /\ "reading" \in Matched
    BY DEF onMeterValues, Frames, Matched
  <2> QED BY <1>0, <1>1, <1>3, <2>1, <2>2, FrameFinds
<1> QED BY <1>2, <1>3 DEF onMeterValues

(* onStopTransaction likewise. *)
LEMMA StopTransactionFound ==
  ASSUME SessionInv, SessionInv', BillInv, NoIdReused, NEW p \in Slots, onStopTransaction(p)
  PROVE  Upheld
<1>0. p \in Procs
  BY DEF Procs
<1>1. UNCHANGED <<rows, delivered, nextTxn, seeded>>
  BY DEF onStopTransaction, counters
<1>2. CASE Leave(p) /\ ReplyStop(op[p])
  BY <1>0, <1>1, <1>2, CalmWorld, ReplyStopStill, Leaves, QuietStep
<1>3. ASSUME NEW s \in OpenWithTxn(op[p].txn), plug' = plug,
             Enter(p, [op[p] EXCEPT !.kind = "finish", !.sid = s, !.docs[s] = rows[s]])
      PROVE  Upheld
  <2>1. s \in Sessions /\ rows[s].txn = op[p].txn
    BY DEF OpenWithTxn
  <2>2. op[p].kind \in Frames /\ "finish" \in Matched
    BY DEF onStopTransaction, Frames, Matched
  <2> QED BY <1>0, <1>1, <1>3, <2>1, <2>2, FrameFinds
<1> QED BY <1>2, <1>3 DEF onStopTransaction

-----------------------------------------------------------------------------
(* StartTransaction *)

(* What the answer leaves as it is, and the plug that begins to charge.     *)
Begins(c, s, txn) ==
  plug[c].begin[s] = "starting" /\ plug'[c].sid = s /\ plug'[c].txn = txn

Answered(con, s, txn) ==
  \A c \in Connectors :
    /\ plug'[c].meter = plug[c].meter /\ plug'[c].base = plug[c].base
    /\ \A u \in Sessions : plug'[c].begin[u] = "starting" => plug[c].begin[u] = "starting"
    /\ \/ /\ plug'[c].phase = plug[c].phase
          /\ plug'[c].sid = plug[c].sid /\ plug'[c].txn = plug[c].txn
       \/ con = c /\ Begins(c, s, txn)

\* Every answer to a StartTransaction is of this kind.
LEMMA RepliesBegin ==
  ASSUME SessionInv, NEW p \in Procs, NEW s \in Sessions, s = op[p].sid, NEW txn,
         NEW accepted \in BOOLEAN, ReplyStart(op[p], txn, accepted)
  PROVE  Answered(op[p].con, s, txn)
<1>0. plug \in [Connectors -> Plug] /\ op[p] \in Handler
  BY BillTypes
<1>1. CASE plug' = plug
  BY <1>1 DEF Answered
<1>2. CASE plug' # plug
  <2>1. PICK c \in Connectors : c = op[p].con /\ plug[c].begin[s] = "starting"
    BY <1>0, <1>2 DEF ReplyStart, Handler
  <2>2. plug[c] \in Plug
    BY <1>0
  <2> DEFINE b == [plug[c].begin EXCEPT ![s] = "no"]
             ended == [plug[c] EXCEPT !.begin = b]
             begun == [plug[c] EXCEPT !.begin = b, !.txn = txn, !.sid = s, !.phase = "charging"]
  <2>3. plug' = [plug EXCEPT ![c] = ended] \/ plug' = [plug EXCEPT ![c] = begun]
    BY <1>0, <1>2, <2>1, <2>2 DEF ReplyStart, Plug
  <2>4. \A u \in Sessions : b[u] = "starting" => plug[c].begin[u] = "starting"
    BY <2>2 DEF Plug
  <2> HIDE DEF b
  <2>5. /\ ended.begin = b /\ ended.phase = plug[c].phase /\ ended.meter = plug[c].meter
        /\ ended.sid = plug[c].sid /\ ended.txn = plug[c].txn
        /\ begun.begin = b /\ begun.sid = s /\ begun.txn = txn /\ begun.meter = plug[c].meter
        /\ ended.base = plug[c].base /\ begun.base = plug[c].base
    BY <2>2 DEF Plug
  <2> HIDE DEF ended, begun
  <2> QED BY <1>0, <2>1, <2>3, <2>4, <2>5 DEF Answered, Begins
<1> QED BY <1>1, <1>2

(* An answer that is an error begins nothing. *)
LEMMA ErrorsBeginNothing ==
  ASSUME SessionInv, NEW p \in Procs, NEW s \in Sessions, s = op[p].sid,
         ReplyStartError(op[p])
  PROVE  \A c \in Connectors : PlugStill(c)
<1>0. plug \in [Connectors -> Plug] /\ op[p] \in Handler
  BY BillTypes
<1>1. CASE plug' = plug
  BY <1>1, StillIfSame
<1>2. CASE plug' # plug
  <2>1. PICK c \in Connectors : c = op[p].con
    BY <1>0, <1>2 DEF ReplyStartError, Handler
  <2>2. plug[c] \in Plug
    BY <1>0
  <2> DEFINE b == [plug[c].begin EXCEPT ![s] = "no"]
             ended == [plug[c] EXCEPT !.begin = b]
  <2>3. plug' = [plug EXCEPT ![c] = ended]
    BY <1>0, <1>2, <2>1, <2>2 DEF ReplyStartError, Plug
  <2>4. \A u \in Sessions : b[u] = "starting" => plug[c].begin[u] = "starting"
    BY <2>2 DEF Plug
  <2> HIDE DEF b
  <2>5. /\ ended.begin = b /\ ended.phase = plug[c].phase /\ ended.meter = plug[c].meter
        /\ ended.sid = plug[c].sid /\ ended.txn = plug[c].txn /\ ended.base = plug[c].base
    BY <2>2 DEF Plug
  <2> HIDE DEF ended
  <2> QED BY <1>0, <2>3, <2>4, <2>5 DEF PlugStill
<1> QED BY <1>1, <1>2

(* A handler that waits, while no start begins and no plug counts. *)
LEMMA WaitingHandler ==
  ASSUME SessionInv, SessionInv', Calm, NEW q \in Procs, op'[q] = op[q],
         \A c \in Connectors :
           /\ plug[c].meter \in Int /\ plug'[c].meter \in Int /\ plug'[c].meter <= plug[c].meter
           /\ op[q].kind \in Confirming /\ op[q].con = c =>
                \A s \in Sessions : s = op[q].sid /\ plug'[c].begin[s] = "starting" =>
                                      plug[c].begin[s] = "starting"
  PROVE  HandlerCalm(q)
<1>1. ASSUME op[q].kind \in Confirming, NEW c \in Connectors, op[q].con = c,
             plug'[c].begin[op[q].sid] = "starting"
      PROVE  /\ plug[c].begin[op[q].sid] = "starting"
             /\ plug'[c].meter - plug[c].meter
                  <= delivered'[op[q].sid] - delivered[op[q].sid]
  <2>1. PICK s \in Sessions : s = op[q].sid
    BY <1>1, BillTypes DEF HandlerInv, SessionKinds, HandlerKinds, Confirming
  <2>2. /\ delivered[s] \in Nat /\ delivered'[s] \in Nat /\ delivered'[s] >= delivered[s]
        /\ plug[c].meter \in Int /\ plug'[c].meter \in Int /\ plug'[c].meter <= plug[c].meter
    BY BillTypes, SessionInvParts DEF WireInv, Calm
  <2>3. plug'[c].meter - plug[c].meter <= delivered'[s] - delivered[s]
    BY <2>2
  <2> QED BY <1>1, <2>1, <2>3
<1> QED BY <1>1 DEF HandlerCalm

(* sendStartTransaction: the reading it carries is the plug's own. *)
LEMMA StartSent ==
  ASSUME ~ResendStart, SessionInv, SessionInv', IdInv, BillInv, NoIdReused, NEW p \in Slots,
         NEW c \in Connectors, NEW s \in Sessions, sendStartTransaction(p, c, s)
  PROVE  Upheld
<1>0. /\ p \in Procs /\ op \in [Procs -> Handler] /\ plug \in [Connectors -> Plug]
      /\ plug[c] \in Plug /\ delivered \in [Sessions -> Nat]
  BY BillTypes DEF Procs
<1>1. UNCHANGED <<rows, delivered, nextTxn, seeded>>
  BY DEF sendStartTransaction, db, counters
<1>2. plug[c].begin[s] = "authorized"
  BY DEF sendStartTransaction, IdInv
<1>3. Calls(s) = {}
  <2>1. c \in Begun(s)
    BY <1>2 DEF Begun
  <2> QED BY <2>1 DEF IdInv, OneStart
<1>4. PICK wh \in {0, plug[c].meter} :
        plug' = [plug EXCEPT ![c].begin[s] = "starting", ![c].base = wh, ![c].meter = wh]
  BY <1>2 DEF sendStartTransaction
<1>5. wh \in Nat /\ wh \in Int /\ wh <= plug[c].meter /\ plug[c].meter \in Int
  <2>1. plug[c].meter \in 0..MaxMeter
    BY <1>0 DEF Plug
  <2> QED BY <2>1, ConstantsAssumption
<1> DEFINE b == [plug[c].begin EXCEPT ![s] = "starting"]
           pl == [plug[c] EXCEPT !.begin = b, !.base = wh, !.meter = wh]
<1>6. plug' = [plug EXCEPT ![c] = pl]
  BY <1>0, <1>4 DEF Plug
<1>7. \A u \in Sessions \ {s} : b[u] = plug[c].begin[u]
  BY <1>0 DEF Plug
<1> HIDE DEF b
<1>8. /\ pl.begin = b /\ pl.phase = plug[c].phase /\ pl.sid = plug[c].sid
      /\ pl.txn = plug[c].txn /\ pl.base = wh /\ pl.meter = wh
  BY <1>0 DEF Plug
<1> HIDE DEF pl
<1>9. plug'[c] = pl /\ \A d \in Connectors \ {c} : plug'[d] = plug[d]
  BY <1>0, <1>6
<1> DEFINE h == [Idle EXCEPT !.kind = "rxStart", !.sid = s, !.con = c,
                             !.charger = ChargerOf[c], !.wh = plug'[c].base]
<1>10. Enter(p, h)
  BY DEF sendStartTransaction
<1>11. h.kind = "rxStart" /\ h.sid = s /\ h.con = c /\ h.wh = wh /\ h.docs = NoDocs
  BY <1>8, <1>9 DEF Idle
<1> HIDE DEF h
<1>12. op'[p] = h /\ \A q \in Procs \ {p} : op'[q] = op[q]
  BY <1>0, <1>10 DEF Enter
<1>13. Calm
  BY <1>1, CalmWorld
<1>14. ASSUME NEW d \in Connectors PROVE PlugCalm(d)
  <2>1. /\ plug'[d].phase = plug[d].phase /\ plug'[d].sid = plug[d].sid
        /\ plug'[d].txn = plug[d].txn
    BY <1>8, <1>9
  <2>2. plug'[d].meter - plug[d].meter <= 0
    <3>1. plug[d].meter \in Int
      BY <1>0, ConstantsAssumption DEF Plug
    <3> QED BY <1>5, <1>8, <1>9, <3>1
  <2>3. \A u \in Sessions : delivered'[u] - delivered[u] = 0
    BY <1>0, <1>1
  <2> QED BY <2>1, <2>2, <2>3 DEF PlugCalm
<1>15. ASSUME NEW q \in Procs \ {p} PROVE HandlerCalm(q)
  <2>1. ASSUME NEW d \in Connectors
        PROVE  plug[d].meter \in Int /\ plug'[d].meter \in Int /\ plug'[d].meter <= plug[d].meter
    <3>1. plug[d].meter \in Int
      BY <1>0, ConstantsAssumption DEF Plug
    <3> QED BY <1>5, <1>8, <1>9, <3>1
  <2>2. op[q].kind \in Confirming => op[q].sid # s
    BY <1>3 DEF Calls
  <2>3. ASSUME NEW d \in Connectors, NEW u \in Sessions, u # s, plug'[d].begin[u] = "starting"
        PROVE  plug[d].begin[u] = "starting"
    BY <1>7, <1>8, <1>9, <2>3
  <2> QED BY <1>12, <1>13, <2>1, <2>2, <2>3, WaitingHandler
<1>16. HandlerBilled(p)'
  <2>1. \A u \in Sessions : op'[p].docs[u] = NoRow
    BY <1>11, <1>12, IdleIsQuiet
  <2>2. \A u \in Sessions : WithinMeter(u, op[p].docs[u])'
    BY <1>0, <1>13, <2>1, CopyCalm
  <2>3. FrameSound(op[p])' /\ MatchSound(op[p])'
    BY <1>11, <1>12 DEF FrameSound, MatchSound, Frames, Matched
  <2>4. plug'[c].meter - h.wh <= delivered'[s]
    <3>1. wh - wh = 0 /\ delivered[s] \in Nat
      BY <1>0, <1>5
    <3> QED BY <1>1, <1>8, <1>9, <1>11, <3>1
  <2>5. StartSound(op[p])'
    BY <1>11, <1>12, <2>4 DEF StartSound
  <2> QED BY <2>2, <2>3, <2>5 DEF HandlerBilled
<1>17. HandlerCounted(p)' /\ \A q \in Procs \ {p} : IdsApart(p, q)' /\ IdsApart(q, p)'
  BY <1>11, <1>12 DEF IdsApart, HandlerCounted, Frames
<1>18. ASSUME EnergyInv, OneStartPerPlug
       PROVE  /\ HandlerAbove(p)' /\ \A q \in Procs \ {p} : StartAbove(op[q])'
              /\ \A d \in Connectors : PlugAbove(d)'
  <2>1. /\ plug[c].phase = "idle"
        /\ \A u \in Sessions \ {s} : plug[c].begin[u] = "no"
    BY <1>2, <1>18 DEF OneStartPerPlug
  <2>2. ASSUME NEW d \in Connectors PROVE PlugAbove(d)'
    <3>1. CASE d = c
      BY <1>5, <1>8, <1>9, <2>1, <3>1 DEF PlugAbove
    <3>2. CASE d # c
      <4>1. PlugAbove(d) /\ plug'[d] = plug[d]
        BY <1>9, <1>18, <3>2 DEF EnergyInv
      <4> QED BY <1>1, <4>1 DEF PlugAbove
    <3> QED BY <3>1, <3>2
  <2>3. ASSUME NEW q \in Procs \ {p} PROVE StartAbove(op[q])'
    <3>1. SUFFICES ASSUME op[q].kind \in Confirming, op[q].con # NoConnector,
                          plug'[op[q].con].begin[op[q].sid] = "starting"
                   PROVE  op[q].wh <= plug'[op[q].con].base
      BY <1>12 DEF StartAbove
    <3>2. PICK d \in Connectors, u \in Sessions : d = op[q].con /\ u = op[q].sid
      BY <3>1, BillTypes DEF Handler, HandlerInv, SessionKinds, HandlerKinds, Confirming
    <3>3. u # s
      BY <1>3, <3>1, <3>2 DEF Calls
    <3>4. d # c
      BY <1>7, <1>8, <1>9, <2>1, <3>1, <3>2, <3>3
    <3>5. StartAbove(op[q]) /\ plug'[d] = plug[d]
      BY <1>9, <1>18, <3>4 DEF EnergyInv, HandlerAbove
    <3> QED BY <3>1, <3>2, <3>5 DEF StartAbove
  <2>4. StartAbove(op[p])'
    <3>1. wh <= wh
      BY <1>5
    <3> QED BY <1>8, <1>9, <1>11, <1>12, <3>1 DEF StartAbove
  <2>5. FrameAbove(op[p])' /\ MatchAbove(op[p])'
    BY <1>11, <1>12 DEF FrameAbove, MatchAbove, Frames, Matched
  <2>6. \A u \in Sessions : Tallies(op'[p].docs[u])
    <3>1. Tallies(NoRow)
      BY DEF Tallies, NoRow, consumedWh
    <3> QED BY <1>11, <1>12, <3>1, IdleIsQuiet
  <2> QED BY <2>2, <2>3, <2>4, <2>5, <2>6 DEF HandlerAbove
<1> QED BY <1>0, <1>13, <1>14, <1>15, <1>16, <1>17, <1>18, OneMoves

(* onStartTransaction: the id is new, and stored nowhere yet. *)
LEMMA TagLookedUp ==
  ASSUME SessionInv, SessionInv', IdInv, BillInv, NoIdReused, NEW p \in Slots,
         onStartTransaction(p)
  PROVE  Upheld
<1>0. /\ p \in Procs /\ op \in [Procs -> Handler] /\ op[p] \in Handler
      /\ delivered \in [Sessions -> Nat] /\ rows \in [Sessions -> Row] /\ nextTxn \in Nat
      /\ op[p].kind = "rxStart" /\ op[p].sid \in Sessions
  BY BillTypes DEF Procs, HandlerInv, onStartTransaction, SessionKinds, HandlerKinds
<1>1. PICK s \in Sessions : s = op[p].sid
  BY <1>0
<1>2. UNCHANGED <<rows, delivered, seeded>>
  BY DEF onStartTransaction
<1>3. rows[s].txn = NoTxn
  <2>1. p \in Calls(s)
    BY <1>0, <1>1 DEF Calls, Confirming
  <2> QED BY <2>1 DEF IdInv, OneStart, Pending
<1>4. nextTxn' = nextTxn + 1 /\ nextTxn' > nextTxn
  <2>1. nextTxn' = nextTxn + 1
    BY <1>1, <1>3 DEF onStartTransaction, allocateTransactionId
  <2> QED BY <1>0, <2>1
<1>5. \A u \in Sessions : RowBilled(u)'
  BY <1>2 DEF BillInv, RowBilled, WithinMeter
<1>6. Calm
  <2>1. \A u \in Sessions : delivered'[u] >= delivered[u]
    BY <1>0, <1>2
  <2>2. EnergyInv => \A u \in Sessions : Tallies(rows'[u])
    BY <1>2 DEF EnergyInv
  <2>3. CounterInv => nextTxn' >= nextTxn /\ seeded'
    BY <1>0, <1>2, <1>4 DEF CounterInv
  <2> QED BY <1>2, <1>5, <2>1, <2>2, <2>3 DEF Calm
<1>7. CASE ReplyStart(op[p], nextTxn', FALSE) /\ Leave(p)
  <2>1. \A c \in Connectors :
          /\ plug'[c].meter = plug[c].meter /\ plug'[c].base = plug[c].base
          /\ \A u \in Sessions : plug'[c].begin[u] = "starting" => plug[c].begin[u] = "starting"
          /\ \/ /\ plug'[c].phase = plug[c].phase
                /\ plug'[c].sid = plug[c].sid /\ plug'[c].txn = plug[c].txn
             \/ plug'[c].txn = nextTxn' /\ plug'[c].sid = s
    <3>1. Answered(op[p].con, s, nextTxn')
      BY <1>0, <1>1, <1>7, RepliesBegin
    <3> QED BY <3>1 DEF Answered, Begins
  <2>2. ASSUME NEW c \in Connectors
        PROVE  /\ plug[c].meter \in Int /\ plug'[c].meter <= plug[c].meter
               /\ PlugCalm(c) /\ NoReset(c)
    <3>1. plug[c].meter \in Int
      BY BillTypes, ConstantsAssumption DEF Plug
    <3>2. \A u \in Sessions : plug'[c].meter - plug[c].meter <= delivered'[u] - delivered[u]
      BY <1>0, <1>2, <2>1, <3>1
    <3>3. NoReset(c)
      BY <2>1, <3>1 DEF NoReset
    <3> QED BY <1>2, <1>3, <1>4, <2>1, <3>1, <3>2, <3>3 DEF PlugCalm
  <2>3. Quiet(p) /\ \A q \in Procs \ {p} : op'[q] = op[q]
    BY <1>0, <1>7, Leaves
  <2>4. \A q \in Procs \ {p} : HandlerCalm(q)
    BY <1>6, <2>1, <2>2, <2>3, WaitingHandler
  <2> QED BY <1>0, <1>6, <2>2, <2>3, <2>4, QuietHandler, AllCalm
<1>8. CASE /\ Enter(p, [op[p] EXCEPT !.kind = "confirm", !.txn = nextTxn', !.docs[s] = rows[s]])
           /\ plug' = plug
  <2> DEFINE docs == [op[p].docs EXCEPT ![s] = rows[s]]
             h == [op[p] EXCEPT !.kind = "confirm", !.txn = nextTxn', !.docs = docs]
  <2>1. op' = [op EXCEPT ![p] = h]
    BY <1>0, <1>8 DEF Enter, Handler
  <2>2. \A u \in Sessions : docs[u] \in {op[p].docs[u], rows'[u]}
    BY <1>0, <1>2 DEF Handler
  <2> HIDE DEF docs
  <2>3. /\ h.kind = "confirm" /\ h.txn = nextTxn' /\ h.docs = docs
        /\ h.sid = s /\ h.con = op[p].con /\ h.wh = op[p].wh
    BY <1>0, <1>1 DEF Handler
  <2> HIDE DEF h
  <2>4. op'[p] = h /\ \A q \in Procs \ {p} : op'[q] = op[q]
    BY <1>0, <2>1
  <2>5. \A c \in Connectors : PlugStill(c) /\ PlugCalm(c) /\ NoReset(c)
    BY <1>6, <1>8, StillIfSame, StillPlugs
  <2>6. \A q \in Procs \ {p} : HandlerCalm(q)
    BY <1>6, <2>4, <2>5, SameHandler
  <2>7. HandlerBilled(p)'
    <3>1. \A u \in Sessions : WithinMeter(u, op[p].docs[u])'
      BY <1>0, <1>6, <2>2, <2>3, <2>4, CopyCalm
    <3>2. FrameSound(op[p])' /\ MatchSound(op[p])'
      BY <2>3, <2>4 DEF FrameSound, MatchSound, Frames, Matched
    <3>3. op[p].con # NoConnector /\ plug[op[p].con].begin[s] = "starting" =>
            plug[op[p].con].meter - op[p].wh <= delivered[s]
      BY <1>0, <1>1 DEF BillInv, HandlerBilled, StartSound, Confirming
    <3>4. StartSound(op[p])'
      BY <1>2, <1>8, <2>3, <2>4, <3>3 DEF StartSound
    <3> QED BY <3>1, <3>2, <3>4 DEF HandlerBilled
  <2>8. ASSUME CounterInv
        PROVE  /\ HandlerCounted(p)'
               /\ \A q \in Procs \ {p} : IdsApart(p, q)' /\ IdsApart(q, p)'
    <3>1. ASSUME NEW u \in Sessions PROVE rows'[u].txn # nextTxn'
      <4>1. rows[u].txn \in Nat /\ rows[u].txn <= nextTxn
        BY <1>0, <2>8 DEF Row, CounterInv
      <4> QED BY <1>0, <1>2, <1>4, <4>1
    <3>2. ASSUME NEW c \in Connectors, plug[c].phase # "idle" PROVE plug[c].txn # nextTxn'
      <4>1. plug[c].txn \in Nat /\ plug[c].txn <= nextTxn
        BY <2>8, <3>2, BillTypes DEF Plug, CounterInv, PlugCounted
      <4> QED BY <1>0, <1>4, <4>1
    <3>3. ASSUME NEW q \in Procs \ {p}, op[q].kind \in Frames \cup {"confirm"}
          PROVE  op[q].txn # nextTxn'
      <4>1. op[q].txn \in Nat /\ op[q].txn <= nextTxn
        BY <1>0, <2>8, <3>3 DEF Handler, CounterInv, HandlerCounted
      <4> QED BY <1>0, <1>4, <4>1
    <3>4. nextTxn' <= nextTxn'
      BY <1>0, <1>4
    <3>5. HandlerCounted(p)'
      BY <1>8, <2>3, <2>4, <3>1, <3>2, <3>4 DEF HandlerCounted
    <3> QED BY <2>3, <2>4, <3>3, <3>5 DEF IdsApart, Frames
  <2>9. ASSUME EnergyInv, NoIdReused'
        PROVE  /\ HandlerAbove(p)' /\ \A q \in Procs \ {p} : StartAbove(op[q])'
               /\ \A c \in Connectors : PlugAbove(c)'
    <3>1. \A c \in Connectors : PlugAbove(c)'
      BY <1>6, <2>5, <2>9, PlugAboveKept
    <3>2. \A q \in Procs \ {p} : StartAbove(op[q])'
      BY <2>5, <2>6, <2>9, StartAboveKept
    <3>3. HandlerAbove(p) /\ \A u \in Sessions : Tallies(rows'[u])
      BY <1>0, <1>6, <2>9 DEF EnergyInv, Calm
    <3>4. \A u \in Sessions : Tallies(op'[p].docs[u])
      BY <2>2, <2>3, <2>4, <3>3 DEF HandlerAbove
    <3>5. FrameAbove(op[p])' /\ MatchAbove(op[p])'
      BY <2>3, <2>4 DEF FrameAbove, MatchAbove, Frames, Matched
    <3>6. StartAbove(op[p])'
      <4>1. StartAbove(op[p]) /\ op[p].kind \in Confirming
        BY <1>0, <3>3 DEF HandlerAbove, Confirming
      <4> QED BY <1>1, <1>8, <2>3, <2>4, <4>1 DEF StartAbove
    <3> QED BY <3>1, <3>2, <3>4, <3>5, <3>6 DEF HandlerAbove
  <2> QED BY <1>0, <1>6, <2>5, <2>6, <2>7, <2>8, <2>9, OneMoves
<1> QED BY <1>1, <1>3, <1>7, <1>8 DEF onStartTransaction

(* The row a confirmation leaves, when nothing confirmed the session before. *)
LEMMA ConfirmationWithinMeter ==
  ASSUME NEW s \in Sessions, rows \in [Sessions -> Row],
         NEW old \in Row, old.status = "initiating", old.txn = NoTxn,
         WithinMeter(s, old), WithinMeter(s, rows[s]), rows[s].txn = NoTxn,
         NEW txn \in Nat, txn # NoTxn, NEW wh \in 0..MaxMeter
  PROVE  LET r == Saved(s, old, Confirmed(old, txn, wh))
         IN  /\ r.txn = txn /\ r.start = wh /\ r.last = wh
             /\ r.energy = rows[s].energy /\ r.amount = rows[s].amount
<1> DEFINE new == Confirmed(old, txn, wh)
<1>1. /\ new.status = "active" /\ new.txn = txn /\ new.start = wh /\ new.last = wh
      /\ new.energy = old.energy /\ new.amount = old.amount
  BY DEF Confirmed, Row
<1> HIDE DEF new
<1>2. computeAmount(new) = new
  BY <1>1 DEF computeAmount, IsTerminal, TERMINAL
<1>3. wh # Null
  BY ConstantsAssumption DEF Null
<1>4. old.start = Null /\ old.last = Null
  BY DEF WithinMeter
<1>5. LET r == Saved(s, old, new)
      IN  /\ r.txn = txn /\ r.start = wh /\ r.last = wh
          /\ r.energy = rows[s].energy /\ r.amount = rows[s].amount
  BY <1>1, <1>2, <1>3, <1>4 DEF Saved, Merge, Keep
<1> QED BY <1>5 DEF new

(* A confirmation that goes on to another id, which it does not while the  *)
(* counter counts, carries what it carried.                                *)
LEMMA NewIdAwaited ==
  ASSUME SessionInv, SessionInv', BillInv, NoIdReused, Calm, ~CounterInv, plug' = plug,
         NEW p \in Procs, op[p].kind \in Confirming,
         op'[p].kind \in {"reseed", "confirmAgain"},
         op'[p].sid = op[p].sid, op'[p].wh = op[p].wh,
         op'[p].con = op[p].con, op'[p].docs = op[p].docs,
         \A q \in Procs \ {p} : op'[q] = op[q]
  PROVE  Upheld
<1>0. op[p] \in Handler /\ HandlerInv(op[p]) /\ HandlerBilled(p)
  BY BillTypes DEF BillInv
<1>1. PICK s \in Sessions : s = op[p].sid
  BY <1>0 DEF HandlerInv, SessionKinds, HandlerKinds, Confirming
<1>2. \A c \in Connectors : PlugStill(c) /\ PlugCalm(c) /\ NoReset(c)
  BY StillIfSame, StillPlugs
<1>3. \A q \in Procs \ {p} : HandlerCalm(q)
  BY <1>2, SameHandler
<1>4. op'[p].kind \in Confirming /\ op'[p].kind \notin Frames \cup Matched
  BY DEF Confirming, Frames, Matched
<1>5. HandlerBilled(p)'
  <2>1. \A u \in Sessions : WithinMeter(u, op[p].docs[u])'
    BY CopyCalm
  <2>2. FrameSound(op[p])' /\ MatchSound(op[p])'
    BY <1>4 DEF FrameSound, MatchSound
  <2>3. ASSUME op[p].con # NoConnector, plug[op[p].con].begin[s] = "starting"
        PROVE  plug[op[p].con].meter - op[p].wh <= delivered'[s]
    <3>1. plug[op[p].con].meter - op[p].wh <= delivered[s]
      BY <1>0, <1>1, <2>3 DEF HandlerBilled, StartSound
    <3>2. /\ delivered[s] \in Nat /\ delivered'[s] \in Nat /\ delivered'[s] >= delivered[s]
          /\ plug[op[p].con].meter \in Int /\ op[p].wh \in Int
      BY <1>0, <2>3, BillTypes, SessionInvParts, ConstantsAssumption
         DEF Calm, WireInv, Handler, Plug
    <3> QED BY ONLY <3>1, <3>2
  <2>4. StartSound(op[p])'
    BY <1>1, <2>3 DEF StartSound
  <2> QED BY <2>1, <2>2, <2>4 DEF HandlerBilled
<1>6. ASSUME EnergyInv, NoIdReused'
      PROVE  /\ HandlerAbove(p)' /\ \A q \in Procs \ {p} : StartAbove(op[q])'
             /\ \A c \in Connectors : PlugAbove(c)'
  <2>1. \A c \in Connectors : PlugAbove(c)'
    BY <1>2, <1>6, PlugAboveKept
  <2>2. \A q \in Procs \ {p} : StartAbove(op[q])'
    BY <1>2, <1>3, <1>6, StartAboveKept
  <2>3. HandlerAbove(p)
    BY <1>6 DEF EnergyInv
  <2>4. FrameAbove(op[p])' /\ MatchAbove(op[p])'
    BY <1>4 DEF FrameAbove, MatchAbove
  <2>5. StartAbove(op[p])'
    BY <2>3 DEF HandlerAbove, StartAbove
  <2> QED BY <2>1, <2>2, <2>3, <2>4, <2>5 DEF HandlerAbove
<1> QED BY <1>2, <1>3, <1>5, <1>6, OneMoves

\* A handler about to store an id: nobody has confirmed its session, whose row takes the
\* id and the reading.
LEMMA ConfirmationHeld ==
  ASSUME SessionInv, IdInv, BillInv, NEW p \in Procs,
         op[p].kind \in {"confirm", "confirmAgain"}, NEW s \in Sessions, s = op[p].sid,
         NEW r, r = Saved(s, op[p].docs[s], Confirmed(op[p].docs[s], op[p].txn, op[p].wh))
  PROVE  /\ op[p].txn # NoTxn /\ op[p].wh \in 0..MaxMeter
         /\ p \in Calls(s) /\ rows[s].txn = NoTxn
         /\ r.txn = op[p].txn /\ r.start = op[p].wh /\ r.last = op[p].wh
         /\ r.energy = rows[s].energy /\ r.amount = rows[s].amount
<1>0. rows \in [Sessions -> Row] /\ op[p] \in Handler
  BY BillTypes
<1>1. /\ op[p].txn # NoTxn /\ op[p].txn \in Nat /\ op[p].wh \in 0..MaxMeter
      /\ op[p].docs[s] \in Row
      /\ op[p].docs[s].status = "initiating" /\ op[p].docs[s].txn = NoTxn
  BY <1>0 DEF IdInv, CallSound, Allocated, Handler
<1>2. p \in Calls(s)
  BY DEF Calls, Confirming
<1>3. rows[s].txn = NoTxn
  BY <1>2 DEF IdInv, OneStart, Pending
<1>4. WithinMeter(s, op[p].docs[s]) /\ WithinMeter(s, rows[s]) /\ rows[s] \in Row
  BY <1>0 DEF BillInv, HandlerBilled, RowBilled
<1>5. /\ r.txn = op[p].txn /\ r.start = op[p].wh /\ r.last = op[p].wh
      /\ r.energy = rows[s].energy /\ r.amount = rows[s].amount
  BY <1>0, <1>1, <1>3, <1>4, ConfirmationWithinMeter
<1> QED BY ONLY <1>1, <1>2, <1>3, <1>5

(* saveConfirmed, refused: the charge point gets an error, or a new id is  *)
(* asked for.                                                              *)
LEMMA ConfirmationRefused ==
  ASSUME SessionInv, SessionInv', IdInv, BillInv, NoIdReused, NEW p \in Procs,
         op[p].kind \in {"confirm", "confirmAgain"}, NEW s \in Sessions, s = op[p].sid,
         NEW r, r = Saved(s, op[p].docs[s], Confirmed(op[p].docs[s], op[p].txn, op[p].wh)),
         UNCHANGED <<rows, delivered, nextTxn, seeded>>,
         \/ ReplyStartError(op[p]) /\ Leave(p)
         \/ ~TransactionIndexAdmits(s, r) /\ Goto(p, "reseed") /\ UNCHANGED plug
  PROVE  Upheld
<1>0. op \in [Procs -> Handler] /\ op[p] \in Handler /\ HandlerInv(op[p])
  BY BillTypes
<1>1. CASE ReplyStartError(op[p]) /\ Leave(p)
  <2>1. \A c \in Connectors : PlugStill(c)
    BY <1>1, ErrorsBeginNothing
  <2> QED BY <1>1, <2>1, CalmWorld, Leaves, QuietStep
<1>2. CASE ~TransactionIndexAdmits(s, r) /\ Goto(p, "reseed") /\ UNCHANGED plug
  <2>1. /\ op'[p].kind = "reseed" /\ op'[p].sid = op[p].sid /\ op'[p].wh = op[p].wh
        /\ op'[p].con = op[p].con /\ op'[p].docs = op[p].docs
        /\ \A q \in Procs \ {p} : op'[q] = op[q]
    BY <1>0, <1>2 DEF Goto, Handler
  <2>2. Calm
    BY CalmWorld
  <2>3. ~CounterInv
    <3>1. r.txn = op[p].txn
      BY ConfirmationHeld
    <3>2. ASSUME CounterInv PROVE \A t \in Sessions : rows[t].txn # op[p].txn
      BY <3>2 DEF CounterInv, HandlerCounted
    <3> QED BY <1>2, <3>1, <3>2 DEF TransactionIndexAdmits
  <2>4. op[p].kind \in Confirming /\ op'[p].kind \in {"reseed", "confirmAgain"} /\ plug' = plug
    BY <1>2, <2>1 DEF Confirming
  <2> QED BY <2>1, <2>2, <2>3, <2>4, NewIdAwaited
<1> QED BY <1>1, <1>2

(* saveConfirmed, admitted: the row takes the id, and the plug that waits  *)
(* begins.                                                                 *)
LEMMA ConfirmationStored ==
  ASSUME SessionInv, SessionInv', IdInv, BillInv, NoIdReused, NEW p \in Procs,
         op[p].kind \in {"confirm", "confirmAgain"}, NEW s \in Sessions, s = op[p].sid,
         NEW r, r = Saved(s, op[p].docs[s], Confirmed(op[p].docs[s], op[p].txn, op[p].wh)),
         TransactionIndexAdmits(s, r), rows' = [rows EXCEPT ![s] = r],
         UNCHANGED <<delivered, nextTxn, seeded>>,
         ReplyStart(op[p], op[p].txn, TRUE), Leave(p)
  PROVE  Upheld
<1> DEFINE h == op[p]
<1>0. /\ op \in [Procs -> Handler] /\ h \in Handler /\ HandlerBilled(p)
      /\ rows \in [Sessions -> Row] /\ delivered \in [Sessions -> Nat]
      /\ nextTxn \in Nat
  BY BillTypes DEF BillInv
<1>a. /\ SessionInv /\ IdInv /\ BillInv /\ p \in Procs /\ s \in Sessions
      /\ op[p].kind \in {"confirm", "confirmAgain"} /\ s = op[p].sid
      /\ r = Saved(s, op[p].docs[s], Confirmed(op[p].docs[s], op[p].txn, op[p].wh))
  OBVIOUS
<1>1. h.kind \in Confirming /\ NoConnector \notin Connectors
  BY ConstantsAssumption DEF Confirming
<1>2. /\ h.txn # NoTxn /\ h.wh \in 0..MaxMeter
      /\ p \in Calls(s) /\ rows[s].txn = NoTxn
      /\ r.txn = h.txn /\ r.start = h.wh /\ r.last = h.wh
      /\ r.energy = rows[s].energy /\ r.amount = rows[s].amount
  BY ONLY <1>a, ConfirmationHeld
<1>3. \A u \in Sessions : rows[u].txn # h.txn
  BY <1>2 DEF TransactionIndexAdmits
<1>4. \A q \in Procs : op[q].kind \in Frames => op[q].txn # h.txn
  BY <1>3 DEF NoIdReused, Unsaved
<1>5. \A c \in Connectors : h.con = c /\ plug[c].begin[s] = "starting" =>
        plug[c].meter - h.wh <= delivered[s]
  BY <1>0, <1>1 DEF HandlerBilled, StartSound
<1>6. rows'[s] = r /\ \A u \in Sessions \ {s} : rows'[u] = rows[u]
  BY <1>0
<1>t. rows'[s].txn = h.txn
  BY ONLY <1>2, <1>6
<1>7. op'[p] = Idle /\ \A q \in Procs \ {p} : op'[q] = op[q]
  BY <1>0 DEF Leave
<1>8. \A c \in Connectors :
        /\ plug'[c].meter = plug[c].meter /\ plug'[c].base = plug[c].base
        /\ \A u \in Sessions : plug'[c].begin[u] = "starting" => plug[c].begin[u] = "starting"
        /\ \/ /\ plug'[c].phase = plug[c].phase
              /\ plug'[c].sid = plug[c].sid /\ plug'[c].txn = plug[c].txn
           \/ h.con = c /\ Begins(c, s, h.txn)
  <2>1. Answered(h.con, s, h.txn)
    BY <1>0, RepliesBegin
  <2> QED BY <2>1 DEF Answered
<1>9. ASSUME CounterInv PROVE CounterInv'
  <2>1. /\ h.kind = "confirm" /\ h.txn <= nextTxn
        /\ \A c \in Connectors : plug[c].phase # "idle" => plug[c].txn # h.txn
    BY <1>9 DEF CounterInv, HandlerCounted
  <2>2. Idle.kind \notin Frames \cup {"confirm", "reseed", "confirmAgain"}
    BY IdleIsQuiet DEF Frames
  <2>3. ASSUME NEW u \in Sessions PROVE rows'[u].txn <= nextTxn'
    <3>1. rows[u].txn <= nextTxn /\ nextTxn' = nextTxn
      BY <1>9 DEF CounterInv
    <3> QED BY ONLY <1>t, <1>6, <2>1, <2>3, <3>1
  <2>4. ASSUME NEW q \in Procs PROVE HandlerCounted(q)'
    <3>1. CASE q = p
      BY <1>7, <2>2, <3>1 DEF HandlerCounted
    <3>2. CASE q # p
      <4>1. op'[q] = op[q] /\ HandlerCounted(q) /\ IdsApart(p, q)
        BY <1>7, <1>9, <3>2 DEF CounterInv
      <4>2. op[q].kind = "confirm" => op[q].txn # h.txn
        BY <2>1, <4>1 DEF IdsApart
      <4>3. ASSUME op[q].kind = "confirm", NEW u \in Sessions PROVE rows'[u].txn # op[q].txn
        BY ONLY <1>t, <1>6, <4>1, <4>2, <4>3 DEF HandlerCounted
      <4>4. ASSUME op[q].kind = "confirm", NEW c \in Connectors, plug'[c].phase # "idle"
            PROVE  plug'[c].txn # op[q].txn
        <5>1. plug[c].phase # "idle" => plug[c].txn # op[q].txn
          BY <4>1, <4>4 DEF HandlerCounted
        <5>2. \/ plug'[c].phase = plug[c].phase /\ plug'[c].txn = plug[c].txn
              \/ plug'[c].txn = h.txn
          BY <1>8 DEF Begins
        <5> QED BY <4>2, <4>4, <5>1, <5>2
      <4> QED BY <4>1, <4>3, <4>4 DEF HandlerCounted
    <3> QED BY <3>1, <3>2
  <2>5. \A q, t \in Procs : q # t => IdsApart(q, t)'
    BY <1>7, <1>9, <2>2 DEF CounterInv, IdsApart
  <2>6. ASSUME NEW c \in Connectors, plug'[c].phase # "idle" PROVE PlugCounted(c)'
    <3>1. CASE /\ plug'[c].phase = plug[c].phase
               /\ plug'[c].sid = plug[c].sid /\ plug'[c].txn = plug[c].txn
      <4>1. PlugCounted(c) /\ plug[c].phase # "idle" /\ plug[c].txn # h.txn
        BY <1>9, <2>1, <2>6, <3>1 DEF CounterInv
      <4>2. ASSUME NEW u \in Sessions, rows'[u].txn = plug[c].txn PROVE u = plug[c].sid
        <5>1. u # s
          BY ONLY <1>t, <4>1, <4>2
        <5> QED BY <1>6, <4>1, <4>2, <5>1 DEF PlugCounted
      <4> QED BY <3>1, <4>1, <4>2 DEF PlugCounted
    <3>2. CASE h.con = c /\ Begins(c, s, h.txn)
      BY <1>3, <1>6, <2>1, <3>2 DEF PlugCounted, Begins
    <3> QED BY <1>8, <3>1, <3>2
  <2>7. seeded'
    BY <1>9 DEF CounterInv
  <2> QED BY <2>3, <2>4, <2>5, <2>6, <2>7 DEF CounterInv, PlugCounted
<1>10. ASSUME NoIdReused', NEW c \in Connectors, plug[c].phase # "idle",
              plug'[c].phase = plug[c].phase,
              plug'[c].sid = plug[c].sid, plug'[c].txn = plug[c].txn
       PROVE  plug[c].txn # h.txn
  <2>1. plug[c].sid # s
    BY <1>2, <1>10 DEF IdInv, PlugSound, Pending
  <2>2. TransactionIdsNotReused'
    BY <1>10 DEF NoIdReused
  <2>3. rows'[s].txn = h.txn
    BY <1>2, <1>6
  <2>4. plug'[c].phase # "idle" /\ plug'[c].sid # s
    BY <1>10, <2>1
  <2>5. plug'[c].txn # h.txn
    BY <2>2, <2>3, <2>4 DEF TransactionIdsNotReused
  <2> QED BY <1>10, <2>5
<1>11. ASSUME NEW u \in Sessions PROVE RowBilled(u)'
  <2>1. RowBilled(u)
    BY DEF BillInv
  <2>2. CASE u # s
    BY <1>6, <2>1, <2>2 DEF RowBilled, WithinMeter
  <2>3. CASE u = s
    <3>1. /\ h.wh \in Nat /\ h.wh # Null /\ delivered[s] \in Nat
      BY <1>0, <1>2, ConstantsAssumption DEF Null
    <3>2. h.wh - h.wh <= delivered[s]
      BY <3>1
    <3>3. /\ r.energy <= delivered[s]
          /\ r.amount # Null => r.amount <= calculateAmountPaise(delivered[s], PricePerKwh)
      BY <1>2, <2>1, <2>3 DEF RowBilled, WithinMeter
    <3>4. r.txn # NoTxn /\ r.start # Null /\ r.last - r.start <= delivered[s]
      BY <1>2, <3>1, <3>2
    <3> QED BY <1>6, <2>3, <3>3, <3>4 DEF RowBilled, WithinMeter
  <2> QED BY <2>2, <2>3
<1>12. ASSUME NEW q \in Procs PROVE HandlerBilled(q)'
  <2>1. CASE q = p
    <3>1. Idle.kind = "idle" /\ \A u \in Sessions : op'[p].docs[u] = NoRow
      BY <1>7, IdleIsQuiet
    <3>2. \A u \in Sessions : WithinMeter(u, NoRow)'
      BY <1>0 DEF WithinMeter, NoRow
    <3> QED BY <1>7, <2>1, <3>1, <3>2
            DEF HandlerBilled, FrameSound, MatchSound, StartSound, Frames, Matched, Confirming
  <2>2. CASE q # p
    <3>1. op'[q] = op[q] /\ HandlerBilled(q)
      BY <1>7, <2>2 DEF BillInv
    <3>2. ASSUME NEW u \in Sessions PROVE WithinMeter(u, op[q].docs[u])'
      <4>1. WithinMeter(u, op[q].docs[u])
        BY <3>1 DEF HandlerBilled
      <4>2. CASE u # s
        BY <1>6, <3>1, <4>1, <4>2 DEF WithinMeter
      <4>3. CASE u = s
        <5>1. op[q].docs[s].txn = NoTxn
          BY <1>2, <4>1, <4>3 DEF WithinMeter
        <5> QED BY <3>1, <4>1, <4>3, <5>1 DEF WithinMeter
      <4> QED BY <4>2, <4>3
    <3>3. FrameSound(op[q])'
      <4>1. FrameSound(op[q]) /\ (op[q].kind \in Frames => op[q].txn # h.txn)
        BY <1>4, <3>1 DEF HandlerBilled
      <4>2. ASSUME op[q].kind \in Frames, NEW u \in Sessions, rows'[u].txn = op[q].txn
            PROVE  op[q].wh - rows'[u].start <= delivered'[u]
        <5>1. u # s
          BY ONLY <1>t, <4>1, <4>2
        <5> QED BY <1>6, <4>1, <4>2, <5>1 DEF FrameSound
      <4> QED BY <3>1, <4>1, <4>2 DEF FrameSound
    <3>4. MatchSound(op[q])'
      BY <3>1 DEF HandlerBilled, MatchSound
    <3>5. StartSound(op[q])'
      <4>1. StartSound(op[q]) /\ op[q] \in Handler /\ HandlerInv(op[q])
        BY <3>1, BillTypes DEF HandlerBilled
      <4>2. SUFFICES ASSUME op[q].kind \in Confirming, op[q].con # NoConnector,
                            plug'[op[q].con].begin[op[q].sid] = "starting"
                     PROVE  plug'[op[q].con].meter - op[q].wh <= delivered'[op[q].sid]
        BY <3>1 DEF StartSound
      <4>3. PICK c \in Connectors, u \in Sessions : c = op[q].con /\ u = op[q].sid
        BY <4>1, <4>2 DEF Handler, HandlerInv, SessionKinds, HandlerKinds, Confirming
      <4>4. plug[c].begin[u] = "starting" /\ plug'[c].meter = plug[c].meter
        BY <1>8, <4>2, <4>3
      <4> QED BY <4>1, <4>2, <4>3, <4>4 DEF StartSound
    <3> QED BY <3>2, <3>3, <3>4, <3>5 DEF HandlerBilled
  <2> QED BY <2>1, <2>2
<1>13. ASSUME NoIdReused', NEW c \in Connectors, plug'[c].phase # "idle"
       PROVE  PlugBilled(c)'
  <2>1. CASE /\ plug'[c].phase = plug[c].phase
             /\ plug'[c].sid = plug[c].sid /\ plug'[c].txn = plug[c].txn
    <3>1. PlugBilled(c) /\ plug[c].txn # h.txn
      BY <1>10, <1>13, <2>1 DEF BillInv
    <3>2. plug[c].phase # "idle" /\ plug'[c].meter = plug[c].meter
      BY <1>8, <1>13, <2>1
    <3>3. ASSUME NEW u \in Sessions, rows'[u].txn = plug[c].txn
          PROVE  plug[c].meter - rows'[u].start <= delivered'[u]
      <4>1. u # s
        BY ONLY <1>t, <3>1, <3>3
      <4> QED BY <1>6, <3>1, <3>2, <3>3, <4>1 DEF PlugBilled
    <3> QED BY <2>1, <3>1, <3>2, <3>3 DEF PlugBilled
  <2>2. CASE h.con = c /\ Begins(c, s, h.txn)
    <3>1. \A u \in Sessions : rows'[u].txn = h.txn => u = s
      BY <1>3, <1>6
    <3>2. plug'[c].meter - rows'[s].start <= delivered'[s]
      BY <1>2, <1>5, <1>6, <1>8, <2>2 DEF Begins
    <3> QED BY <1>2, <2>2, <3>1, <3>2 DEF PlugBilled, Begins
  <2> QED BY <1>8, <2>1, <2>2
<1>14. NoIdReused' => BillInv'
  BY <1>11, <1>12, <1>13 DEF BillInv, PlugBilled
<1>15. ASSUME EnergyInv, NoIdReused' PROVE EnergyInv'
  <2>0. HandlerAbove(p) /\ h.con \in Connectors \cup {NoConnector}
    BY <1>0, <1>15 DEF EnergyInv, Handler
  <2>1. Tallies(r)
    <3>1. h.wh \in Int /\ h.wh # Null
      BY ONLY <1>2, ConstantsAssumption DEF Null
    <3>2. rows[s].energy = 0
      <4>1. WithinMeter(s, rows[s])
        BY DEF BillInv, RowBilled
      <4> QED BY <1>2, <4>1 DEF WithinMeter
    <3>3. consumedWh(h.wh, h.wh) = 0 /\ h.wh <= h.wh
      BY <3>1 DEF consumedWh
    <3> QED BY <1>2, <3>1, <3>2, <3>3 DEF Tallies
  <2>2. \A u \in Sessions : Tallies(rows'[u])
    BY <1>6, <1>15, <2>1 DEF EnergyInv
  <2>3. ASSUME NEW q \in Procs PROVE HandlerAbove(q)'
    <3>1. CASE q = p
      <4>1. Tallies(NoRow)
        BY DEF Tallies, NoRow, consumedWh
      <4> QED BY <1>7, <3>1, <4>1, IdleIsQuiet
              DEF HandlerAbove, FrameAbove, MatchAbove, StartAbove, Frames, Matched,
                  Confirming
    <3>2. CASE q # p
      <4>1. op'[q] = op[q] /\ HandlerAbove(q) /\ op[q] \in Handler
        BY <1>0, <1>7, <1>15, <3>2 DEF EnergyInv
      <4>2. FrameAbove(op[q])'
        BY ONLY <1>2, <1>4, <1>6, <4>1 DEF HandlerAbove, FrameAbove
      <4>3. StartAbove(op[q])'
        <5>1. SUFFICES ASSUME op[q].kind \in Confirming, op[q].con # NoConnector,
                              plug'[op[q].con].begin[op[q].sid] = "starting"
                       PROVE  op[q].wh <= plug'[op[q].con].base
          BY <4>1 DEF StartAbove
        <5>2. PICK c \in Connectors, u \in Sessions : c = op[q].con /\ u = op[q].sid
          BY <4>1, <5>1, BillTypes DEF Handler, HandlerInv, SessionKinds, HandlerKinds,
                                       Confirming
        <5>3. plug[c].begin[u] = "starting" /\ plug'[c].base = plug[c].base
          BY <1>8, <5>1, <5>2
        <5> QED BY <4>1, <5>1, <5>2, <5>3 DEF HandlerAbove, StartAbove
      <4>4. MatchAbove(op[q])' /\ \A u \in Sessions : Tallies(op'[q].docs[u])
        BY <4>1 DEF HandlerAbove, MatchAbove
      <4> QED BY <4>2, <4>3, <4>4 DEF HandlerAbove
    <3> QED BY <3>1, <3>2
  <2>4. ASSUME NEW c \in Connectors PROVE PlugAbove(c)'
    <3>1. PlugAbove(c) /\ plug'[c].meter = plug[c].meter /\ plug'[c].base = plug[c].base
      BY <1>8, <1>15 DEF EnergyInv
    <3>2. CASE /\ plug'[c].phase = plug[c].phase
               /\ plug'[c].sid = plug[c].sid /\ plug'[c].txn = plug[c].txn
      <4>1. plug[c].phase # "idle" => plug[c].txn # h.txn
        BY <1>10, <1>15, <3>2
      <4> QED BY ONLY <1>2, <1>6, <3>1, <3>2, <4>1 DEF PlugAbove
    <3>3. CASE h.con = c /\ Begins(c, s, h.txn)
      <4>1. h.wh <= plug[c].base
        <5>1. c # NoConnector
          BY <1>1
        <5> QED BY <1>1, <2>0, <3>3, <5>1 DEF HandlerAbove, StartAbove, Begins
      <4>2. \A u \in Sessions : rows'[u].txn = h.txn => u = s
        BY <1>3, <1>6
      <4> QED BY ONLY <1>2, <1>6, <3>1, <3>3, <4>1, <4>2 DEF PlugAbove, Begins
    <3> QED BY <1>8, <3>2, <3>3
  <2> QED BY <2>2, <2>3, <2>4 DEF EnergyInv
<1> QED BY <1>9, <1>14, <1>15 DEF Upheld

(* saveConfirmed: the one or the other. *)
LEMMA ConfirmationSaved ==
  ASSUME SessionInv, SessionInv', IdInv, BillInv, NoIdReused, NEW p \in Slots,
         saveConfirmed(p)
  PROVE  Upheld
<1>0. /\ p \in Procs /\ op[p].kind \in {"confirm", "confirmAgain"} /\ op[p].sid \in Sessions
  BY BillTypes DEF Procs, HandlerInv, saveConfirmed, SessionKinds, HandlerKinds
<1>1. PICK s \in Sessions : s = op[p].sid
  BY <1>0
<1> DEFINE old == op[p].docs[s]
           new == Confirmed(old, op[p].txn, op[p].wh)
           r == Saved(s, old, new)
<1>2. UNCHANGED <<delivered, nextTxn, seeded>>
  BY DEF saveConfirmed, counters
<1>3. Save(s, old, new)
  BY <1>1 DEF saveConfirmed
<1>4. Admitted(s, old, new) => rows' = [rows EXCEPT ![s] = r] /\ TransactionIndexAdmits(s, r)
  BY <1>3 DEF Save, Admitted, IndexesAdmit
<1>5. ~Admitted(s, old, new) => rows' = rows
  BY <1>3 DEF Save
<1>6. \/ Admitted(s, old, new) /\ ReplyStart(op[p], op[p].txn, TRUE) /\ Leave(p)
      \/ /\ ~Admitted(s, old, new)
         /\ \/ ReplyStartError(op[p]) /\ Leave(p)
            \/ ~TransactionIndexAdmits(s, r) /\ Goto(p, "reseed") /\ UNCHANGED plug
  BY <1>1 DEF saveConfirmed
<1> HIDE DEF r
<1>7. r = Saved(s, op[p].docs[s], Confirmed(op[p].docs[s], op[p].txn, op[p].wh))
  BY DEF r
<1> HIDE DEF old, new
<1> QED BY <1>0, <1>1, <1>2, <1>4, <1>5, <1>6, <1>7, ConfirmationStored, ConfirmationRefused

(* reseedTransactionIds: another id, for a save that was refused. *)
LEMMA NewIdTaken ==
  ASSUME SessionInv, SessionInv', BillInv, NoIdReused, NEW p \in Slots,
         reseedTransactionIds(p)
  PROVE  Upheld
<1>0. p \in Procs /\ op \in [Procs -> Handler] /\ op[p] \in Handler /\ op[p].kind = "reseed"
  BY BillTypes DEF Procs, reseedTransactionIds
<1>1. UNCHANGED <<rows, delivered, plug>>
  BY DEF reseedTransactionIds, db, net
<1>2. ~CounterInv
  BY <1>0 DEF CounterInv, HandlerCounted
<1>3. Calm
  BY <1>1, <1>2, CalmWorld
<1>4. /\ op'[p].kind = "confirmAgain" /\ op'[p].sid = op[p].sid /\ op'[p].wh = op[p].wh
      /\ op'[p].con = op[p].con /\ op'[p].docs = op[p].docs
      /\ \A q \in Procs \ {p} : op'[q] = op[q]
  <2>1. op' = [op EXCEPT ![p] = [op[p] EXCEPT !.kind = "confirmAgain", !.txn = nextTxn']]
    BY DEF reseedTransactionIds, Enter
  <2> QED BY <1>0, <2>1 DEF Handler
<1>5. op[p].kind \in Confirming /\ op'[p].kind \in {"reseed", "confirmAgain"} /\ plug' = plug
  BY <1>0, <1>1, <1>4 DEF Confirming
<1> QED BY <1>0, <1>2, <1>3, <1>4, <1>5, NewIdAwaited

-----------------------------------------------------------------------------
(* The invariant of billing, and what it is for *)

(* Before anything charges. *)
LEMMA BillInvInit == Init => BillInv
<1> SUFFICES ASSUME Init PROVE BillInv
  OBVIOUS
<1>1. \A c \in Connectors : plug[c].phase = "idle"
  BY DEF Init
<1>2. \A p \in Procs : op[p] = Idle
  BY DEF Init
<1>3. \A s \in Sessions : rows[s] = NoRow /\ delivered[s] = 0
  BY DEF Init
<1>4. \A s \in Sessions : WithinMeter(s, NoRow)
  BY <1>3 DEF WithinMeter, NoRow
<1>5. \A s \in Sessions : RowBilled(s)
  <2>1. NoRow.amount = Null
    BY DEF NoRow
  <2> QED BY <1>3, <1>4, <2>1 DEF RowBilled
<1>6. \A p \in Procs : HandlerBilled(p)
  BY <1>2, <1>4, IdleIsQuiet
     DEF HandlerBilled, FrameSound, MatchSound, StartSound, Frames, Matched, Confirming
<1>7. \A c \in Connectors : PlugBilled(c)
  BY <1>1 DEF PlugBilled
<1> QED BY <1>5, <1>6, <1>7 DEF BillInv

(* ... or an id is given out. *)
LEMMA CounterInvInit == Init => CounterInv
<1> SUFFICES ASSUME Init PROVE CounterInv
  OBVIOUS
<1>1. seeded /\ nextTxn = 0
  BY DEF Init
<1>2. \A s \in Sessions : rows[s].txn <= nextTxn
  <2>1. NoRow.txn = 0 /\ \A s \in Sessions : rows[s] = NoRow
    BY DEF Init, NoRow, NoTxn
  <2> QED BY <1>1, <2>1
<1>3. \A p \in Procs : HandlerCounted(p)
  <2>1. \A p \in Procs : op[p] = Idle
    BY DEF Init
  <2> QED BY <2>1, IdleIsQuiet DEF HandlerCounted, Frames
<1>4. \A p, q \in Procs : IdsApart(p, q)
  <2>1. \A p \in Procs : op[p] = Idle
    BY DEF Init
  <2> QED BY <2>1, IdleIsQuiet DEF IdsApart
<1>5. \A c \in Connectors : PlugCounted(c)
  BY DEF Init, PlugCounted
<1> QED BY <1>1, <1>2, <1>3, <1>4, <1>5 DEF CounterInv

\* Nothing has been read at the start.
LEMMA EnergyInvInit == Init => EnergyInv
<1> SUFFICES ASSUME Init PROVE EnergyInv
  OBVIOUS
<1>1. Tallies(NoRow)
  BY DEF Tallies, NoRow, consumedWh
<1>2. \A s \in Sessions : Tallies(rows[s])
  BY <1>1 DEF Init
<1>3. \A p \in Procs : HandlerAbove(p)
  <2>1. \A p \in Procs : op[p] = Idle
    BY DEF Init
  <2> QED BY <1>1, <2>1, IdleIsQuiet
          DEF HandlerAbove, FrameAbove, MatchAbove, StartAbove, Frames, Matched, Confirming
<1>4. \A c \in Connectors : PlugAbove(c)
  <2>1. PICK wh \in 0..MaxMeter :
          \A c \in Connectors : /\ plug[c].phase = "idle"
                                /\ plug[c].base = 0 /\ plug[c].meter = wh
    BY DEF Init
  <2>2. 0 <= wh
    BY ConstantsAssumption
  <2> QED BY <2>1, <2>2 DEF PlugAbove
<1> QED BY <1>2, <1>3, <1>4 DEF EnergyInv

(* Every step of the specification. *)
LEMMA BillInvNext ==
  ASSUME ~ResendStart, SessionInv, SessionInv', IdInv, BillInv, NoIdReused,
         [Next]_vars
  PROVE  Upheld
<1>0. \A p \in Slots : p \in Procs
  BY DEF Procs
<1>1. ASSUME NEW p \in Slots, HandlerStep(p) PROVE Upheld
  <2>1. CASE requestStop(p) \/ commandTimeout(p)
    BY <2>1, RequestsBilled
  <2>2. CASE failOpenSessions(p) \/ releaseConnectors(p)
    BY <1>0, <2>2, PassesBilled
  <2>3. CASE \/ markFailed(p) \/ saveStopping(p) \/ saveStopOffline(p) \/ saveMeter(p)
             \/ \E s \in Sessions : failSessions(p, s)
    BY <1>0, <2>3, SavesBilled
  <2>4. CASE createSession(p)      BY <2>4, CreateBilled
  <2>5. CASE onStartTransaction(p) BY <2>5, TagLookedUp
  <2>6. CASE saveConfirmed(p)      BY <2>6, ConfirmationSaved
  <2>7. CASE reseedTransactionIds(p) BY <2>7, NewIdTaken
  <2>8. CASE onMeterValues(p)      BY <2>8, MeterValuesFound
  <2>9. CASE createReading(p)      BY <2>9, ReadingBilled
  <2>10. CASE onStopTransaction(p) BY <2>10, StopTransactionFound
  <2>11. CASE saveFinished(p)      BY <2>11, FinishedBilled
  <2> QED BY <1>1, <2>1, <2>2, <2>3, <2>4, <2>5, <2>6, <2>7, <2>8, <2>9, <2>10, <2>11
          DEF HandlerStep
<1>2. ASSUME NEW p \in Slots, PersonStep(p) PROVE Upheld
  BY <1>2, RequestsBilled
<1>3. ASSUME NEW p \in Slots, ChargerCall(p) PROVE Upheld
  <2>1. CASE \E c \in Connectors, s \in Sessions : sendStartTransaction(p, c, s)
    BY <2>1, StartSent
  <2>2. CASE \E c \in Connectors, wh \in 0..MaxMeter : sendMeterValues(p, c, wh)
    BY <2>2, MeterValuesSent
  <2>3. CASE \E c \in Connectors : sendStopTransaction(p, c)
    BY <2>3, StopTransactionSent
  <2>4. CASE \/ \E c \in Connectors : faultConnector(p, c)
             \/ \E ch \in Chargers : faultChargePoint(p, ch)
    BY <2>4, FaultsBilled
  <2>5. CASE \E ch \in Chargers : disconnect(p, ch)
    BY <2>5, DisconnectBilled
  <2> QED BY <1>3, <2>1, <2>2, <2>3, <2>4, <2>5 DEF ChargerCall
<1>4. ASSUME NEW p \in Slots, restart(p) PROVE Upheld
  BY <1>4, RestartBilled
<1>5. CASE SweeperStep
  <2>1. Sweeper \in Procs
    BY DEF Procs
  <2>2. CASE sweepUnconfirmedSessions
    BY <2>1, <2>2, PassesBilled
  <2>3. CASE \E s \in Sessions : saveSwept(s)
    BY <2>1, <2>3, SavesBilled
  <2> QED BY <1>5, <2>2, <2>3 DEF SweeperStep
<1>6. CASE ChargerStep
  <2>1. ASSUME NEW m \in cmds,
               chargerRejects(m) \/ chargerAcceptsStart(m) \/ chargerAcceptsStop(m)
        PROVE  Upheld
    BY <2>1, AnswersBilled
  <2>2. CASE \E c \in Connectors : deliverEnergy(c)
    BY <2>2, EnergyBilled
  <2>3. CASE \/ \E c \in Connectors, s \in Sessions : authorizeIdTag(c, s)
             \/ \E c \in Connectors : endOffline(c)
             \/ \E ch \in Chargers : connect(ch) \/ clearFaults(ch)
    BY <2>3, LocalBilled
  <2> QED BY <1>6, <2>1, <2>2, <2>3 DEF ChargerStep
<1>7. CASE (\E s \in Sessions : elapse(s)) \/ UNCHANGED vars
  BY <1>7, LocalBilled
<1>8. CASE seedAtBoot
  BY <1>8, SeedBilled
<1> QED BY <1>1, <1>2, <1>3, <1>4, <1>5, <1>6, <1>7, <1>8 DEF Next

(* A step of the specification takes no restart back. *)
LEMMA RestartsGrow ==
  ASSUME SessionInv, [Next]_vars, restarts' = 0
  PROVE  restarts = 0
<1>1. restarts \in Nat
  BY ConstantsAssumption DEF SessionInv, TypeOK
<1>2. CASE \E p \in Slots : restart(p)
  <2>1. restarts' = restarts + 1
    BY <1>2 DEF restart
  <2> QED BY <1>1, <2>1
<1>3. CASE ~\E p \in Slots : restart(p)
  <2>1. ASSUME NEW p \in Slots, HandlerStep(p) \/ PersonStep(p) \/ ChargerCall(p)
        PROVE  restarts' = restarts
    <3>1. CASE HandlerStep(p)
      BY <3>1 DEF HandlerStep, createSession, markFailed, requestStop, saveStopping,
                  saveStopOffline, onStartTransaction, saveConfirmed, reseedTransactionIds,
                  onMeterValues, createReading, saveMeter, onStopTransaction, saveFinished,
                  failOpenSessions, failSessions, releaseConnectors, commandTimeout, bounds
    <3>2. CASE PersonStep(p)
      BY <3>2 DEF PersonStep, startSession, stopSession, bounds
    <3>3. CASE ChargerCall(p)
      BY <3>3 DEF ChargerCall, sendStartTransaction, sendMeterValues, sendStopTransaction,
                  faultConnector, faultChargePoint, disconnect, bounds
    <3> QED BY <2>1, <3>1, <3>2, <3>3
  <2>2. CASE SweeperStep \/ ChargerStep \/ seedAtBoot \/ (\E s \in Sessions : elapse(s))
             \/ UNCHANGED vars
    BY <2>2 DEF SweeperStep, sweepUnconfirmedSessions, saveSwept, ChargerStep, chargerRejects,
                chargerAcceptsStart, chargerAcceptsStop, authorizeIdTag, deliverEnergy,
                endOffline, connect, clearFaults, seedAtBoot, elapse, vars, bounds
  <2> QED BY <1>3, <2>1, <2>2 DEF Next
<1> QED BY <1>2, <1>3

\* Until a restart the ids are kept apart by the counter, and so billing is sound.
CountedInv == restarts = 0 => CounterInv /\ BillInv

(* A step keeps this, and the energies with it.                            *)
LEMMA CountedNext ==
  ASSUME ~ResendStart, SessionInv, SessionInv', IdInv, CountedInv, [Next]_vars
  PROVE  /\ CountedInv'
         /\ (restarts = 0 => EnergyInv) /\ OneStartPerPlug => (restarts' = 0 => EnergyInv')
<1> SUFFICES ASSUME restarts' = 0
             PROVE  /\ CounterInv' /\ BillInv'
                    /\ (restarts = 0 => EnergyInv) /\ OneStartPerPlug => EnergyInv'
  BY DEF CountedInv
<1>1. restarts = 0 /\ CounterInv /\ BillInv
  BY RestartsGrow DEF CountedInv
<1>2. Upheld
  BY <1>1, CountedNotReused, BillInvNext
<1>3. CounterInv'
  BY <1>1, <1>2 DEF Upheld
<1>4. NoIdReused'
  BY <1>3, CountedNotReused, PTL
<1> QED BY <1>1, <1>2, <1>3, <1>4 DEF Upheld

(* The id a plug is charging under leads no MeterValues and no             *)
(* StopTransaction to another session, and an id about to be stored is on  *)
(* no frame: so it is until the backend restarts and sets the counter back *)
(* (allocateTransactionId, highestTransactionId).                          *)
THEOREM CountedIdsApart ==
  ASSUME ~ResendStart
  PROVE  Spec => [](restarts = 0 => NoIdReused)
<1>1. Init => IdInv /\ CountedInv
  BY IdInvInit, CounterInvInit, BillInvInit DEF CountedInv
<1>2. SessionInv /\ SessionInv' /\ IdInv /\ CountedInv /\ [Next]_vars => IdInv' /\ CountedInv'
  BY IdInvNext, CountedNext
<1>3. CountedInv => (restarts = 0 => NoIdReused)
  BY CountedNotReused DEF CountedInv
<1> QED BY <1>1, <1>2, <1>3, Invariance, PTL DEF Spec

(* No interleaving of stale saves, lost links, faults, restarts and        *)
(* repeated or replayed readings bills a driver for more energy than the   *)
(* plug's meter counted for that session, as long as no transaction id is  *)
(* used twice, for charge points that do not repeat a StartTransaction     *)
(* (onMeterValues, onStopTransaction, computeAmount).                      *)
THEOREM UniqueIdsBillWithinMeter ==
  ASSUME ~ResendStart
  PROVE  Spec /\ []NoIdReused => []NeverOverbilled
<1>1. Init => IdInv /\ BillInv
  BY IdInvInit, BillInvInit
<1>2. /\ SessionInv /\ SessionInv' /\ IdInv /\ BillInv /\ NoIdReused /\ NoIdReused'
      /\ [Next]_vars
      => IdInv' /\ BillInv'
  BY IdInvNext, BillInvNext DEF Upheld
<1>3. BillInv => NeverOverbilled
  BY DEF BillInv, RowBilled, NeverOverbilled
<1> QED BY <1>1, <1>2, <1>3, Invariance, PTL DEF Spec

(* Nor is the energy on a row other than the span of its readings,         *)
(* whichever handlers wrote the three fields and in whatever order         *)
(* (onMeterValues, onStopTransaction, failSessions), as long as, besides,  *)
(* no two starts overlap on a plug.                                        *)
THEOREM UniqueIdsMeterEnergy ==
  ASSUME ~ResendStart
  PROVE  Spec /\ []NoIdReused /\ []OneStartPerPlug => []EnergyMatchesMeter
<1>1. Init => IdInv /\ BillInv /\ EnergyInv
  BY IdInvInit, BillInvInit, EnergyInvInit
<1>2. /\ SessionInv /\ SessionInv' /\ IdInv /\ BillInv /\ EnergyInv
      /\ NoIdReused /\ NoIdReused' /\ OneStartPerPlug /\ [Next]_vars
      => IdInv' /\ BillInv' /\ EnergyInv'
  BY IdInvNext, BillInvNext DEF Upheld
<1>3. EnergyInv => EnergyMatchesMeter
  BY DEF EnergyInv, Tallies, EnergyMatchesMeter
<1> QED BY <1>1, <1>2, <1>3, Invariance, PTL DEF Spec

(* Before the first restart the counter sees to it: no session is billed   *)
(* for more energy than its plug's meter counted (computeAmount).          *)
THEOREM BilledWithinMeter ==
  ASSUME ~ResendStart
  PROVE  Spec => [](restarts = 0 => NeverOverbilled)
<1>1. Init => IdInv /\ CountedInv
  BY IdInvInit, CounterInvInit, BillInvInit DEF CountedInv
<1>2. SessionInv /\ SessionInv' /\ IdInv /\ CountedInv /\ [Next]_vars => IdInv' /\ CountedInv'
  BY IdInvNext, CountedNext
<1>3. CountedInv => (restarts = 0 => NeverOverbilled)
  BY DEF CountedInv, BillInv, RowBilled, NeverOverbilled
<1> QED BY <1>1, <1>2, <1>3, Invariance, PTL DEF Spec

(* ... and the energy on a row is the span of its readings, as long as no  *)
(* two starts overlap on a plug (failSessions, onStopTransaction).         *)
THEOREM EnergyIsMetered ==
  ASSUME ~ResendStart
  PROVE  Spec /\ []OneStartPerPlug => [](restarts = 0 => EnergyMatchesMeter)
<1> DEFINE Tallied == restarts = 0 => EnergyInv
<1>1. Init => IdInv /\ CountedInv /\ Tallied
  BY IdInvInit, CounterInvInit, BillInvInit, EnergyInvInit DEF CountedInv
<1>2. /\ SessionInv /\ SessionInv' /\ IdInv /\ CountedInv /\ Tallied /\ OneStartPerPlug
      /\ [Next]_vars
      => IdInv' /\ CountedInv' /\ Tallied'
  BY IdInvNext, CountedNext
<1>3. Tallied => (restarts = 0 => EnergyMatchesMeter)
  BY DEF EnergyInv, Tallies, EnergyMatchesMeter
<1> QED BY <1>1, <1>2, <1>3, Invariance, PTL DEF Spec
=============================================================================
