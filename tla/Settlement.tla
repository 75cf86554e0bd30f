----------------------------- MODULE Settlement -----------------------------
(***************************************************************************)
(* Money: wallet recharges, the collection of charging sessions, and the   *)
(* ledger (payment.service.ts, wallet.service.ts).                         *)
(*                                                                         *)
(* Each await of a request is a step boundary.  A MongoDB transaction is   *)
(* one step: every read in it is a findOneAndUpdate or a save, so a        *)
(* concurrent transaction on the same documents conflicts and is retried.  *)
(* A transaction whose commit is aborted runs its callback again; the      *)
(* database forgets the first attempt, the documents in memory do not.     *)
(***************************************************************************)
EXTENDS Integers, SequencesExt

CONSTANTS
  Drivers, Sessions, Recharges,
  NoSession, NoRecharge,
  WalletOf,       \* the driver a session or a recharge belongs to
  Amount,         \* amountPaise of a session once priced, or of a recharge
  Slots,          \* bound: requests in flight at once
  Sweeper,        \* the slot of the single-flight settlement sweep
  Batch,          \* SETTLEMENT_SWEEP_BATCH
  MaxAborts,      \* bound: commits the database aborts
  MaxCrashes      \* bound: crashes of the process

ASSUME MoneyAssumption ==
  /\ NoSession \notin Sessions /\ NoRecharge \notin Recharges
  /\ Sessions \cap Recharges = {} /\ IsFiniteSet(Sessions)
  /\ WalletOf \in [Sessions \cup Recharges -> Drivers]
  /\ Amount \in [Sessions \cup Recharges -> Nat]
  /\ Sweeper \notin Slots
  /\ Batch \in Nat \ {0} /\ MaxAborts \in Nat /\ MaxCrashes \in Nat

VARIABLES
  bal,        \* Wallet.balancePaise
  ledger,     \* WalletTransaction rows of each wallet, oldest first
  priced,     \* sessions whose amountPaise is set
  unpaid,     \* sessions whose paymentStatus is `unpaid`
  pay,        \* status of the session_debit payment of each session
  due,        \* pending session_debits whose nextAttemptAt is null or past, soonest first
  rech,       \* the status of each wallet_recharge payment
  captured,   \* recharges the provider has captured
  op,         \* requests in flight
  aborts, crashes

money == <<bal, ledger>>
store == <<bal, ledger, priced, unpaid, pay, due, rech, captured>>
vars == <<bal, ledger, priced, unpaid, pay, due, rech, captured, op, aborts, crashes>>

Procs == Slots \cup {Sweeper}

Entry == [type : {"recharge", "session_debit", "refund"}, ref : Sessions \cup Recharges,
          before : Nat, after : Nat]

PaymentStatuses == {"none", "pending", "paid"}

\* "ordered" is a pending payment that carries its providerOrderId.
RechargeStatuses == {"none", "pending", "ordered", "paid", "failed", "refunded"}

Kinds == {"idle", "order", "credit", "outstanding", "next", "settle",
          "lookup", "create", "collect", "defer", "due", "refund"}

\* again: a first attempt of the transaction was aborted after its callback ran.
Request == [kind : Kinds, sid : Sessions \cup {NoSession}, rid : Recharges \cup {NoRecharge},
            todo : Seq(Sessions), stop : BOOLEAN, again : BOOLEAN]

Idle == [kind |-> "idle", sid |-> NoSession, rid |-> NoRecharge, todo |-> <<>>,
         stop |-> FALSE, again |-> FALSE]

Free(p) == p \in Slots /\ op[p].kind = "idle"
Enter(p, h) == op' = [op EXCEPT ![p] = h]
Leave(p) == Enter(p, Idle)
Goto(p, kind) == Enter(p, [op[p] EXCEPT !.kind = kind])

\* A settlement attempt is over: the caller takes its next session, or returns.
Continue(p) == IF op[p].todo = <<>> THEN Leave(p)
               ELSE Enter(p, [op[p] EXCEPT !.kind = "next", !.again = FALSE])

Owed == {s \in Sessions : s \in priced /\ s \in unpaid /\ Amount[s] > 0}

-----------------------------------------------------------------------------
(* The wallet *)

\* applyMovement: the guarded $inc and its ledger row.
atomicCredit(r) ==
  LET d == WalletOf[r] IN
  /\ bal' = [bal EXCEPT ![d] = @ + Amount[r]]
  /\ ledger' = [ledger EXCEPT ![d] = Append(@,
       [type |-> "recharge", ref |-> r, before |-> bal[d], after |-> bal[d] + Amount[r]])]

\* Faulty variant: the $inc without the balance in its filter.
Covers_unguarded(x) == TRUE
Covers(x) == bal[WalletOf[x]] >= Amount[x]

\* Faulty variant: the balance moves and no row is written.
atomicDebit_noLedger(x, type) ==
  /\ bal' = [bal EXCEPT ![WalletOf[x]] = @ - Amount[x]]
  /\ UNCHANGED ledger

atomicDebit(x, type) ==
  LET d == WalletOf[x] IN
  /\ bal' = [bal EXCEPT ![d] = @ - Amount[x]]
  /\ ledger' = [ledger EXCEPT ![d] = Append(@,
       [type |-> type, ref |-> x, before |-> bal[d], after |-> bal[d] - Amount[x]])]

-----------------------------------------------------------------------------
(* settleSession *)

\* The session ends and the save hook prices it; nothing to collect is paid.
price(s) ==
  /\ s \notin priced
  /\ priced' = priced \cup {s}
  /\ unpaid' = IF Amount[s] = 0 THEN unpaid \ {s} ELSE unpaid
  /\ UNCHANGED <<money, pay, due, rech, captured, op, aborts, crashes>>

\* onStopTransaction's `void settleSession(...)`; two copies of a StopTransaction
\* handled at once both get here.
settleInline(p, s) ==
  /\ Free(p) /\ s \in priced
  /\ Enter(p, [Idle EXCEPT !.kind = "settle", !.sid = s])
  /\ UNCHANGED <<store, aborts, crashes>>

nextDebt(p) ==
  /\ op[p].kind = "next"
  /\ Enter(p, [op[p] EXCEPT !.kind = "settle", !.sid = Head(op[p].todo), !.todo = Tail(@)])
  /\ UNCHANGED <<store, aborts, crashes>>

settleSession(p) ==
  /\ op[p].kind = "settle"
  /\ IF op[p].sid \in Owed THEN Goto(p, "lookup") ELSE Continue(p)
  /\ UNCHANGED <<store, aborts, crashes>>

findPayment(p) ==
  LET status == pay[op[p].sid] IN
  /\ op[p].kind = "lookup"
  /\ \/ status = "none" /\ Goto(p, "create")
     \/ status = "pending" /\ Goto(p, "collect")
     \/ status = "paid" /\ Continue(p)
  /\ UNCHANGED <<store, aborts, crashes>>

\* one_live_payment_per_session: the loser of the race leaves it to the winner.
createPayment(p) ==
  LET s == op[p].sid IN
  /\ op[p].kind = "create"
  /\ \/ /\ pay[s] = "none"
        /\ pay' = [pay EXCEPT ![s] = "pending"]
        /\ due' = <<s>> \o due
        /\ Goto(p, "collect")
     \/ /\ pay[s] # "none"
        /\ Continue(p)
        /\ UNCHANGED <<pay, due>>
  /\ UNCHANGED <<money, priced, unpaid, rech, captured, aborts, crashes>>

\* Faulty variant: the debit is not rolled back when the claim finds nothing.
Claimable_always(s) == TRUE
Claimable(s) == pay[s] = "pending"

\* nextAttemptAt of s moves into the future, or its payment is no longer pending.
NotDue(s) ==
  IF s \in ToSet(due) THEN RemoveAt(due, CHOOSE i \in 1..Len(due) : due[i] = s) ELSE due

\* Faulty variant: the session is not saved with the claim.
Projected_notSaved(p) == unpaid

\* charging.save: a document that an aborted attempt already saved has no
\* modified path left, and saving it again writes nothing.
Projected(p) == IF op[p].again THEN unpaid ELSE unpaid \ {op[p].sid}

\* The transaction: debit, claim, project onto the session.
collect(p) ==
  LET h == op[p]
      s == h.sid
  IN
  /\ h.kind = "collect"
  /\ \/ /\ ~Covers(s)
        /\ Goto(p, "defer")
        /\ UNCHANGED <<money, pay, due, unpaid>>
     \/ /\ Covers(s) /\ ~Claimable(s)
        /\ Continue(p)
        /\ UNCHANGED <<money, pay, due, unpaid>>
     \/ /\ Covers(s) /\ Claimable(s)
        /\ atomicDebit(s, "session_debit")
        /\ pay' = [pay EXCEPT ![s] = "paid"]
        /\ due' = NotDue(s)
        /\ unpaid' = Projected(p)
        /\ Continue(p)
  /\ UNCHANGED <<priced, rech, captured, aborts, crashes>>

\* The bookkeeping outside the transaction: attempts and nextAttemptAt.
defer(p) ==
  /\ op[p].kind = "defer"
  /\ due' = NotDue(op[p].sid)
  /\ IF op[p].stop THEN Leave(p) ELSE Continue(p)
  /\ UNCHANGED <<money, priced, unpaid, pay, rech, captured, aborts, crashes>>

\* retryDelayMs passes.
backoffElapses(s) ==
  /\ pay[s] = "pending" /\ s \notin ToSet(due)
  /\ due' = Append(due, s)
  /\ UNCHANGED <<money, priced, unpaid, pay, rech, captured, op, aborts, crashes>>

-----------------------------------------------------------------------------
(* The sweeper: sessions nobody has tried to collect first, then retries *)

Orphans == {s \in Owed : pay[s] = "none"}

Least(a, b) == IF a < b THEN a ELSE b

\* A list of `limit` members of S at most.  They are sorted by endedAt, the
\* charge point's clock, which bears no relation to the order of arrival here.
Listed(S, limit) == {SubSeq(q, 1, Least(limit, Len(q))) : q \in SetToSeqs(S)}

\* Faulty variant: the latest due first.
DueFirst_latest(limit) == SubSeq(due, Len(due) + 1 - Least(limit, Len(due)), Len(due))
DueFirst(limit) == SubSeq(due, 1, Least(limit, Len(due)))

\* Faulty variant: retries fill the batch before orphans are looked at.
sweepOrphans_retriesFirst ==
  /\ op[Sweeper].kind = "idle" /\ (Orphans # {} \/ due # <<>>)
  /\ \E q \in Listed(IF due # <<>> THEN ToSet(due) ELSE Orphans, Batch) :
       Enter(Sweeper, [Idle EXCEPT !.kind = "due", !.todo = q])
  /\ UNCHANGED <<store, aborts, crashes>>

\* A tick of the interval that finds nothing changes nothing.
sweepOrphans ==
  /\ op[Sweeper].kind = "idle" /\ (Orphans # {} \/ due # <<>>)
  /\ \E q \in Listed(Orphans, Batch) :
       Enter(Sweeper, [Idle EXCEPT !.kind = "due", !.todo = q])
  /\ UNCHANGED <<store, aborts, crashes>>

sweepDue ==
  LET h == op[Sweeper]
      found == h.todo \o DueFirst(Batch - Len(h.todo))
  IN
  /\ h.kind = "due"
  /\ IF found = <<>> THEN Leave(Sweeper)
     ELSE Enter(Sweeper, [h EXCEPT !.kind = "next", !.todo = found])
  /\ UNCHANGED <<store, aborts, crashes>>

-----------------------------------------------------------------------------
(* Recharges *)

createRechargeOrder(p, r) ==
  /\ Free(p) /\ rech[r] = "none"
  /\ rech' = [rech EXCEPT ![r] = "pending"]
  /\ Enter(p, [Idle EXCEPT !.kind = "order", !.rid = r])
  /\ UNCHANGED <<money, priced, unpaid, pay, due, captured, aborts, crashes>>

\* The provider answers, or cannot be reached.
saveOrder(p) ==
  LET r == op[p].rid IN
  /\ op[p].kind = "order"
  /\ rech' \in {[rech EXCEPT ![r] = "ordered"], [rech EXCEPT ![r] = "failed"]}
  /\ Leave(p)
  /\ UNCHANGED <<money, priced, unpaid, pay, due, captured, aborts, crashes>>

\* The driver pays at the provider, who may now call as often as it likes.
capture(r) ==
  /\ rech[r] = "ordered" /\ r \notin captured
  /\ captured' = captured \cup {r}
  /\ UNCHANGED <<money, priced, unpaid, pay, due, rech, op, aborts, crashes>>

\* The browser's verify or the provider's webhook: the read before the claim.
verifyAndCredit(p, r) ==
  /\ Free(p) /\ r \in captured
  /\ rech[r] = "ordered"
  /\ Enter(p, [Idle EXCEPT !.kind = "credit", !.rid = r])
  /\ UNCHANGED <<store, aborts, crashes>>

\* Faulty variant: the status is checked before the transaction only.
Unclaimed_checkedBefore(r) == TRUE
Unclaimed(r) == rech[r] = "ordered"

\* The transaction: claim the payment, credit the wallet.
credit(p) ==
  LET h == op[p] IN
  /\ h.kind = "credit"
  /\ \/ /\ Unclaimed(h.rid)
        /\ rech' = [rech EXCEPT ![h.rid] = "paid"]
        /\ atomicCredit(h.rid)
        /\ Goto(p, "outstanding")
     \/ /\ ~Unclaimed(h.rid)
        /\ IF h.again THEN Goto(p, "outstanding") ELSE Leave(p)
        /\ UNCHANGED <<money, rech>>
  /\ UNCHANGED <<priced, unpaid, pay, due, captured, aborts, crashes>>

\* After a top-up, what the driver still owes, until the first shortfall.
settleOutstandingForUser(p) ==
  LET mine == {s \in Owed : WalletOf[s] = WalletOf[op[p].rid]} IN
  /\ op[p].kind = "outstanding"
  /\ IF mine = {} THEN Leave(p)
     ELSE \E q \in SetToSeqs(mine) :
            Enter(p, [Idle EXCEPT !.kind = "next", !.todo = q, !.stop = TRUE])
  /\ UNCHANGED <<store, aborts, crashes>>

refundRecharge(p, r) ==
  /\ Free(p) /\ rech[r] = "paid"
  /\ Enter(p, [Idle EXCEPT !.kind = "refund", !.rid = r])
  /\ UNCHANGED <<store, aborts, crashes>>

\* The transaction: debit the wallet, save the status on the copy read before.
refund(p) ==
  LET h == op[p] IN
  /\ h.kind = "refund"
  /\ \/ /\ ~Covers(h.rid)
        /\ UNCHANGED <<money, rech>>
     \/ /\ Covers(h.rid)
        /\ atomicDebit(h.rid, "refund")
        /\ rech' = IF h.again THEN rech ELSE [rech EXCEPT ![h.rid] = "refunded"]
  /\ Leave(p)
  /\ UNCHANGED <<priced, unpaid, pay, due, captured, aborts, crashes>>

-----------------------------------------------------------------------------
(* The database and the process *)

\* The callback ran to its end and the commit was aborted (a failover): the
\* driver runs the callback again.
commitAborts(p) ==
  LET h == op[p] IN
  /\ aborts < MaxAborts /\ aborts' = aborts + 1
  /\ \/ h.kind = "collect" /\ Covers(h.sid) /\ Claimable(h.sid)
     \/ h.kind = "credit" /\ Unclaimed(h.rid)
     \/ h.kind = "refund" /\ Covers(h.rid)
  /\ Enter(p, [h EXCEPT !.again = TRUE])
  /\ UNCHANGED <<store, crashes>>

crash ==
  /\ crashes < MaxCrashes /\ crashes' = crashes + 1
  /\ op' = [p \in Procs |-> Idle]
  /\ UNCHANGED <<store, aborts>>

-----------------------------------------------------------------------------
Init ==
  /\ bal = [d \in Drivers |-> 0]
  /\ ledger = [d \in Drivers |-> <<>>]
  /\ priced = {}
  /\ unpaid = Sessions
  /\ pay = [s \in Sessions |-> "none"]
  /\ due = <<>>
  /\ rech = [r \in Recharges |-> "none"]
  /\ captured = {}
  /\ op = [p \in Procs |-> Idle]
  /\ aborts = 0
  /\ crashes = 0

\* The next await of request p completes.
RequestStep(p) ==
  \/ nextDebt(p) \/ settleSession(p) \/ findPayment(p) \/ createPayment(p) \/ collect(p) \/ defer(p)
  \/ saveOrder(p) \/ credit(p) \/ settleOutstandingForUser(p) \/ refund(p)

SweepStart == sweepOrphans \/ sweepDue

Arrival(p) ==
  \/ \E s \in Sessions : settleInline(p, s)
  \/ \E r \in Recharges :
       createRechargeOrder(p, r) \/ verifyAndCredit(p, r) \/ refundRecharge(p, r)

Next ==
  \/ \E p \in Procs : RequestStep(p) \/ commitAborts(p)
  \/ \E p \in Slots : Arrival(p)
  \/ SweepStart
  \/ \E s \in Sessions : price(s) \/ backoffElapses(s)
  \/ \E r \in Recharges : capture(r)
  \/ crash

Spec == Init /\ [][Next]_vars

\* Promises run to completion, the sweep's interval keeps ticking and backoff
\* passes.  Nothing is assumed of drivers, administrators or the provider.
Fairness ==
  /\ \A p \in Procs : WF_vars(RequestStep(p))
  /\ WF_vars(SweepStart)
  /\ \A s \in Sessions : WF_vars(backoffElapses(s))

FairSpec == Spec /\ Fairness

-----------------------------------------------------------------------------
(* Properties *)

\* Type correctness; balances are naturals, so no wallet is ever overdrawn.
TypeOK ==
  /\ bal \in [Drivers -> Nat]
  /\ ledger \in [Drivers -> Seq(Entry)]
  /\ priced \subseteq Sessions
  /\ unpaid \subseteq Sessions
  /\ pay \in [Sessions -> PaymentStatuses]
  /\ due \in Seq(Sessions)
  /\ rech \in [Recharges -> RechargeStatuses]
  /\ captured \subseteq Recharges
  /\ op \in [Procs -> Request]
  /\ aborts \in 0..MaxAborts /\ crashes \in 0..MaxCrashes

\* Every ledger row continues from the one before it, and the stored balance
\* is what the last one left: no movement bypasses the ledger (applyMovement).
LedgerChained ==
  \A d \in Drivers :
    LET l == ledger[d] IN
    /\ \A i \in 1..Len(l) : l[i].before = IF i = 1 THEN 0 ELSE l[i - 1].after
    /\ bal[d] = IF l = <<>> THEN 0 ELSE l[Len(l)].after

Rows(d, type, x) == {i \in 1..Len(ledger[d]) : ledger[d][i].type = type /\ ledger[d][i].ref = x}

\* However many of the inline attempt, the sweep and a top-up race for one
\* session, its money moves once, exactly when its payment becomes paid.
SettledOnce ==
  \A s \in Sessions :
    Cardinality(Rows(WalletOf[s], "session_debit", s)) = IF pay[s] = "paid" THEN 1 ELSE 0

\* Four concurrent verifies, or a verify racing a webhook, credit a recharge once.
CreditedOnce ==
  \A r \in Recharges :
    Cardinality(Rows(WalletOf[r], "recharge", r)) =
      IF rech[r] \in {"paid", "refunded"} THEN 1 ELSE 0

\* "It is written in the same transaction, so the two cannot drift": a session
\* with something to pay is marked paid exactly when its payment is.
ProjectionAgrees ==
  \A s \in Sessions : Amount[s] > 0 => (s \notin unpaid <=> pay[s] = "paid")

\* The claim above, up to the first commit that is aborted after its callback
\* ran: the copies another request holds never make the two drift.
ProjectionAgreesUntilAbort == aborts = 0 => ProjectionAgrees

\* "A payment already `refunded` is rejected rather than reversed twice": two
\* reversals that both read it before either wrote do reverse it twice (README,
\* section 4), so no run lists this.
RefundedOnce ==
  \A r \in Recharges : Cardinality(Rows(WalletOf[r], "refund", r)) <= 1

\* A session that was priced and never attempted (a crash before the inline
\* call) gets a payment, even when unpayable sessions fill every batch.
OrphansAttempted ==
  \A s \in Sessions : s \in Orphans ~> s \notin Orphans

\* A debt its wallet keeps being able to cover does not stay uncollected.
DebtsCollected ==
  \A s \in Sessions : []<>(s \notin Owed \/ ~Covers(s))

A == INSTANCE Accounts WITH
       balance   <- bal,
       credited  <- {r \in Recharges : rech[r] \in {"paid", "refunded"}},
       collected <- {s \in Sessions : pay[s] = "paid"}

\* The payment code implements Accounts: no interleaving, abort or crash moves
\* money except by crediting a recharge once, collecting a session once from a
\* sufficient balance, or reversing a credited recharge.
ImplementsAccounts == A!Spec
=============================================================================
