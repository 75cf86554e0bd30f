-------------------------- MODULE SettlementProofs --------------------------
(***************************************************************************)
(* Proofs about Settlement, for any set of drivers, sessions and           *)
(* recharges, any amounts, and any number of requests in flight.           *)
(***************************************************************************)
EXTENDS Settlement, SequenceTheorems, FiniteSetTheorems, TLAPS

(* The inductive invariant *)

\* What a request carries at the await it is suspended in.
Held(h) ==
  /\ h.kind \in {"settle", "lookup", "create", "collect", "defer"} => h.sid \in Sessions
  /\ h.kind \in {"order", "credit", "outstanding", "refund"} => h.rid \in Recharges
  /\ h.kind = "next" => h.todo # <<>>
  /\ h.kind = "due" => Len(h.todo) <= Batch

RequestsInv == \A p \in Procs : Held(op[p])

\* A recharge waits for the provider's answer in one request only.
OrdersInv ==
  \A p \in Procs : op[p].kind = "order" =>
    /\ rech[op[p].rid] = "pending"
    /\ \A q \in Procs : op[q].kind = "order" /\ op[q].rid = op[p].rid => q = p

\* A reversal in flight is of a recharge that was credited.
RefundsInv ==
  \A p \in Procs : op[p].kind = "refund" => rech[op[p].rid] \in {"paid", "refunded"}

AbortsInv == \A p \in Procs : op[p].again => aborts > 0

-----------------------------------------------------------------------------
(* Lists *)

\* Every order in which a query may list a set of sessions is a list of sessions.
LEMMA OrderType ==
  ASSUME NEW S \in SUBSET Sessions, NEW q \in SetToSeqs(S)
  PROVE  /\ q \in Seq(Sessions)
         /\ S # {} => q # <<>>
<1>1. IsFiniteSet(S) /\ Cardinality(S) \in Nat
  BY MoneyAssumption, FS_Subset, FS_CardinalityType DEF MoneyAssumption
<1>2. q \in [1..Cardinality(S) -> S]
  BY DEF SetToSeqs
<1>3. q \in Seq(S) /\ Len(q) = Cardinality(S)
  BY <1>1, <1>2, IsASeq, LenProperties
<1>4. q \in Seq(Sessions)
  BY <1>3, SeqMonotonic
<1>5. S # {} => Cardinality(S) # 0
  BY <1>1, FS_EmptySet
<1> QED
  BY <1>3, <1>4, <1>5

\* A query with a limit returns a list of sessions no longer than the limit.
LEMMA ListedType ==
  ASSUME NEW S \in SUBSET Sessions, NEW n \in Nat, NEW q \in Listed(S, n)
  PROVE  q \in Seq(Sessions) /\ Len(q) <= n
<1>1. PICK u \in SetToSeqs(S) : q = SubSeq(u, 1, Least(n, Len(u)))
  BY DEF Listed
<1>2. u \in Seq(Sessions) /\ Len(u) \in Nat
  BY OrderType
<1>3. Least(n, Len(u)) \in 0..Len(u) /\ Least(n, Len(u)) <= n
  BY <1>2 DEF Least
<1> QED
  BY <1>1, <1>2, <1>3

\* The due payments a sweep takes are sessions.
LEMMA DueFirstType ==
  ASSUME due \in Seq(Sessions), NEW n \in Nat
  PROVE  DueFirst(n) \in Seq(Sessions)
<1>1. Least(n, Len(due)) \in 0..Len(due)
  BY DEF Least
<1> QED
  BY <1>1 DEF DueFirst

\* Postponing a payment leaves a list of sessions.
LEMMA NotDueType ==
  ASSUME due \in Seq(Sessions), NEW s
  PROVE  NotDue(s) \in Seq(Sessions)
<1>1. CASE s \in ToSet(due)
  <2> DEFINE i == CHOOSE k \in 1..Len(due) : due[k] = s
  <2>1. \E k \in 1..Len(due) : due[k] = s
    BY <1>1 DEF ToSet
  <2>2. i \in 1..Len(due)
    BY <2>1
  <2>3. RemoveAt(due, i) \in Seq(Sessions)
    <3> HIDE DEF i
    <3>1. SubSeq(due, 1, i - 1) \in Seq(Sessions) /\ SubSeq(due, i + 1, Len(due)) \in Seq(Sessions)
      BY <2>2
    <3> QED BY <3>1 DEF RemoveAt
  <2> QED
    BY <1>1, <2>3 DEF NotDue
<1>2. CASE s \notin ToSet(due)
  BY <1>2 DEF NotDue
<1> QED
  BY <1>1, <1>2

-----------------------------------------------------------------------------
(* Requests *)

\* An idle slot is well-formed.
LEMMA IdleType ==
  ASSUME TRUE
  PROVE  Idle \in Request /\ Held(Idle)
<1>1. <<>> \in Seq(Sessions)
  OBVIOUS
<1> QED
  BY <1>1 DEF Idle, Request, Kinds, Held

\* A request that goes on well-formed leaves every request well-formed.
LEMMA Entered ==
  ASSUME TypeOK, RequestsInv, NEW p \in Procs, NEW h \in Request, Held(h), Enter(p, h)
  PROVE  /\ op' \in [Procs -> Request]
         /\ RequestsInv'
         /\ op'[p] = h
         /\ \A q \in Procs : q # p => op'[q] = op[q]
<1>1. op \in [Procs -> Request] /\ op' = [op EXCEPT ![p] = h]
  BY DEF TypeOK, Enter
<1>2. op' \in [Procs -> Request] /\ op'[p] = h /\ \A q \in Procs : q # p => op'[q] = op[q]
  BY <1>1
<1>3. \A q \in Procs : Held(op'[q])
  BY <1>2 DEF RequestsInv
<1> QED
  BY <1>2, <1>3 DEF RequestsInv, Held

\* A request that returns leaves every request well-formed.
LEMMA Left ==
  ASSUME TypeOK, RequestsInv, NEW p \in Procs, Leave(p)
  PROVE  /\ op' \in [Procs -> Request]
         /\ RequestsInv'
         /\ op'[p] = Idle
         /\ \A q \in Procs : q # p => op'[q] = op[q]
BY IdleType, Entered DEF Leave

\* A settlement attempt that is over hands on a well-formed list, or returns.
LEMMA Continued ==
  ASSUME TypeOK, RequestsInv, NEW p \in Procs, Continue(p)
  PROVE  /\ op' \in [Procs -> Request]
         /\ RequestsInv'
         /\ op'[p].kind \in {"idle", "next"} /\ ~op'[p].again
         /\ \A q \in Procs : q # p => op'[q] = op[q]
<1>1. CASE op[p].todo = <<>>
  BY <1>1, Left DEF Continue, Idle
<1>2. CASE op[p].todo # <<>>
  <2> DEFINE h == [op[p] EXCEPT !.kind = "next", !.again = FALSE]
  <2>1. op[p] \in Request
    BY DEF TypeOK
  <2>2. h \in Request /\ h.kind = "next" /\ h.todo # <<>> /\ ~h.again
    BY <1>2, <2>1 DEF Request, Kinds
  <2>3. Held(h)
    BY <2>2 DEF Held
  <2>4. Enter(p, h)
    BY <1>2 DEF Continue
  <2> HIDE DEF h
  <2> QED
    BY <2>2, <2>3, <2>4, Entered
<1> QED
  BY <1>1, <1>2

-----------------------------------------------------------------------------
(* Type correctness *)

\* The two ways a movement writes the wallet keep balances natural numbers.
LEMMA DebitType ==
  ASSUME TypeOK, NEW x \in Sessions \cup Recharges, Covers(x),
         NEW type \in {"session_debit", "refund"}, atomicDebit(x, type)
  PROVE  bal' \in [Drivers -> Nat] /\ ledger' \in [Drivers -> Seq(Entry)]
<1> DEFINE d == WalletOf[x]
           e == [type |-> type, ref |-> x, before |-> bal[d], after |-> bal[d] - Amount[x]]
<1>1. d \in Drivers /\ Amount[x] \in Nat /\ bal[d] \in Nat /\ bal[d] >= Amount[x]
  BY MoneyAssumption DEF MoneyAssumption, TypeOK, Covers
<1>2. bal[d] - Amount[x] \in Nat
  BY <1>1
<1>3. e \in Entry
  BY <1>1, <1>2 DEF Entry
<1>4. bal' = [bal EXCEPT ![d] = bal[d] - Amount[x]] /\ ledger' = [ledger EXCEPT ![d] = Append(ledger[d], e)]
  BY DEF atomicDebit, TypeOK
<1> HIDE DEF e, d
<1>5. Append(ledger[d], e) \in Seq(Entry)
  BY <1>1, <1>3 DEF TypeOK
<1> QED
  BY <1>1, <1>2, <1>4, <1>5 DEF TypeOK

\* A credit keeps balances natural numbers and writes a ledger row.
LEMMA CreditType ==
  ASSUME TypeOK, NEW r \in Recharges, atomicCredit(r)
  PROVE  bal' \in [Drivers -> Nat] /\ ledger' \in [Drivers -> Seq(Entry)]
<1> DEFINE d == WalletOf[r]
           e == [type |-> "recharge", ref |-> r, before |-> bal[d], after |-> bal[d] + Amount[r]]
<1>1. d \in Drivers /\ Amount[r] \in Nat /\ bal[d] \in Nat
  BY MoneyAssumption DEF MoneyAssumption, TypeOK
<1>2. bal[d] + Amount[r] \in Nat
  BY <1>1
<1>3. e \in Entry
  BY <1>1, <1>2 DEF Entry
<1>4. bal' = [bal EXCEPT ![d] = bal[d] + Amount[r]] /\ ledger' = [ledger EXCEPT ![d] = Append(ledger[d], e)]
  BY DEF atomicCredit, TypeOK
<1> HIDE DEF e, d
<1>5. Append(ledger[d], e) \in Seq(Entry)
  BY <1>1, <1>3 DEF TypeOK
<1> QED
  BY <1>1, <1>2, <1>4, <1>5 DEF TypeOK

\* A request that reaches its next await keeps what it holds.
LEMMA WentOn ==
  ASSUME TypeOK, RequestsInv, NEW p \in Procs, NEW k, Goto(p, k),
         \/ k \in {"lookup", "create", "collect", "defer"} /\ op[p].sid \in Sessions
         \/ k = "outstanding" /\ op[p].rid \in Recharges
  PROVE  /\ op' \in [Procs -> Request]
         /\ RequestsInv'
         /\ op'[p].kind = k /\ op'[p].sid = op[p].sid /\ op'[p].rid = op[p].rid
         /\ op'[p].again = op[p].again
         /\ \A q \in Procs : q # p => op'[q] = op[q]
<1> DEFINE h == [op[p] EXCEPT !.kind = k]
<1>1. op[p] \in Request
  BY DEF TypeOK
<1>2. /\ h \in Request
      /\ h.kind = k /\ h.sid = op[p].sid /\ h.rid = op[p].rid /\ h.again = op[p].again
  BY <1>1 DEF Request, Kinds
<1>3. Held(h)
  BY <1>2 DEF Held
<1>4. Enter(p, h)
  BY DEF Goto
<1> HIDE DEF h
<1> QED
  BY <1>2, <1>3, <1>4, Entered

\* A request that arrives carries the recharge or the session it is about.
LEMMA Arrived ==
  ASSUME TypeOK, RequestsInv, NEW p \in Procs, NEW k,
         \/ \E s \in Sessions : k = "settle" /\ Enter(p, [Idle EXCEPT !.kind = k, !.sid = s])
         \/ \E r \in Recharges : /\ k \in {"order", "credit", "refund"}
                                 /\ Enter(p, [Idle EXCEPT !.kind = k, !.rid = r])
  PROVE  /\ op' \in [Procs -> Request]
         /\ RequestsInv'
         /\ op'[p].kind = k /\ ~op'[p].again
         /\ \A q \in Procs : q # p => op'[q] = op[q]
<1>1. CASE \E s \in Sessions : k = "settle" /\ Enter(p, [Idle EXCEPT !.kind = k, !.sid = s])
  <2>1. PICK s \in Sessions : k = "settle" /\ Enter(p, [Idle EXCEPT !.kind = k, !.sid = s])
    BY <1>1
  <2> DEFINE h == [Idle EXCEPT !.kind = k, !.sid = s]
  <2>2. h \in Request /\ h.kind = k /\ h.sid = s /\ ~h.again
    BY <2>1, IdleType DEF Request, Kinds, Idle
  <2>3. Held(h)
    BY <2>1, <2>2 DEF Held
  <2> HIDE DEF h
  <2> QED
    BY <2>1, <2>2, <2>3, Entered DEF h
<1>2. CASE \E r \in Recharges : k \in {"order", "credit", "refund"}
                                /\ Enter(p, [Idle EXCEPT !.kind = k, !.rid = r])
  <2>1. PICK r \in Recharges : k \in {"order", "credit", "refund"}
                               /\ Enter(p, [Idle EXCEPT !.kind = k, !.rid = r])
    BY <1>2
  <2> DEFINE h == [Idle EXCEPT !.kind = k, !.rid = r]
  <2>2. h \in Request /\ h.kind = k /\ h.rid = r /\ ~h.again
    BY <2>1, IdleType DEF Request, Kinds, Idle
  <2>3. Held(h)
    BY <2>1, <2>2 DEF Held
  <2> HIDE DEF h
  <2> QED
    BY <2>1, <2>2, <2>3, Entered DEF h
<1> QED
  BY <1>1, <1>2

\* A step of p that leaves the recharges alone disturbs no order or reversal.
LEMMA Undisturbed ==
  ASSUME OrdersInv, RefundsInv, AbortsInv, NEW p \in Procs,
         \A q \in Procs : q # p => op'[q] = op[q],
         UNCHANGED <<rech, aborts>>,
         op'[p].kind \notin {"order", "refund"},
         op'[p].again => op[p].again
  PROVE  OrdersInv' /\ RefundsInv' /\ AbortsInv'
<1>1. OrdersInv'
  BY DEF OrdersInv
<1>2. RefundsInv'
  BY DEF RefundsInv
<1>3. AbortsInv'
  BY DEF AbortsInv
<1> QED
  BY <1>1, <1>2, <1>3

\* The inductive invariant of the requests.
TypeInv == TypeOK /\ RequestsInv /\ OrdersInv /\ RefundsInv /\ AbortsInv

\* The empty store and idle slots satisfy the invariant.
LEMMA TypeInvInit == Init => TypeInv
<1> SUFFICES ASSUME Init PROVE TypeInv
  OBVIOUS
<1>1. op = [p \in Procs |-> Idle]
  BY DEF Init
<1>2. op \in [Procs -> Request] /\ \A p \in Procs : Held(op[p])
  BY <1>1, IdleType
<1>3. \A p \in Procs : op[p].kind = "idle" /\ ~op[p].again
  BY <1>1 DEF Idle
<1>4. /\ bal \in [Drivers -> Nat]
      /\ ledger \in [Drivers -> Seq(Entry)]
      /\ pay \in [Sessions -> PaymentStatuses]
      /\ due \in Seq(Sessions)
      /\ rech \in [Recharges -> RechargeStatuses]
      /\ priced \subseteq Sessions /\ unpaid \subseteq Sessions /\ captured \subseteq Recharges
  BY DEF Init, PaymentStatuses, RechargeStatuses
<1>5. aborts \in 0..MaxAborts /\ crashes \in 0..MaxCrashes
  BY MoneyAssumption DEF Init, MoneyAssumption
<1>6. TypeOK
  BY <1>2, <1>4, <1>5 DEF TypeOK
<1>7. RequestsInv /\ OrdersInv /\ RefundsInv /\ AbortsInv
  BY <1>2, <1>3 DEF RequestsInv, OrdersInv, RefundsInv, AbortsInv
<1> QED
  BY <1>6, <1>7 DEF TypeInv

\* The steps of a settlement attempt.
LEMMA SettlementSteps ==
  ASSUME TypeInv, NEW p \in Procs,
         nextDebt(p) \/ settleSession(p) \/ findPayment(p) \/ createPayment(p) \/ collect(p) \/ defer(p)
  PROVE  TypeInv'
<1> USE DEF TypeInv
<1>0. op[p] \in Request /\ Held(op[p]) /\ op \in [Procs -> Request]
  BY DEF TypeOK, RequestsInv
<1>1. CASE nextDebt(p)
  <2> DEFINE h == [op[p] EXCEPT !.kind = "settle", !.sid = Head(op[p].todo), !.todo = Tail(op[p].todo)]
  <2>1. op[p].todo \in Seq(Sessions) /\ op[p].todo # <<>>
    BY <1>0, <1>1 DEF nextDebt, Request, Held
  <2>2. Head(op[p].todo) \in Sessions /\ Tail(op[p].todo) \in Seq(Sessions)
    BY <2>1
  <2>3. h \in Request /\ h.kind = "settle" /\ h.sid \in Sessions /\ h.again = op[p].again
    BY <1>0, <2>2 DEF Request, Kinds
  <2>4. Held(h)
    BY <2>3 DEF Held
  <2>5. Enter(p, h) /\ UNCHANGED <<store, aborts, crashes>>
    BY <1>0, <1>1 DEF nextDebt, Request
  <2> HIDE DEF h
  <2>6. op' \in [Procs -> Request] /\ RequestsInv' /\ op'[p] = h /\ \A q \in Procs : q # p => op'[q] = op[q]
    BY <2>3, <2>4, <2>5, Entered
  <2>7. TypeOK'
    BY <2>5, <2>6 DEF TypeOK, store
  <2>8. OrdersInv' /\ RefundsInv' /\ AbortsInv'
    BY <2>3, <2>5, <2>6, Undisturbed DEF store
  <2> QED BY <2>6, <2>7, <2>8
<1>2. CASE settleSession(p)
  <2>1. op[p].sid \in Sessions
    BY <1>0, <1>2 DEF settleSession, Held
  <2>2. /\ op' \in [Procs -> Request] /\ RequestsInv'
        /\ \A q \in Procs : q # p => op'[q] = op[q]
        /\ op'[p].kind \notin {"order", "refund"}
        /\ op'[p].again => op[p].again
    BY <1>2, <2>1, WentOn, Continued DEF settleSession
  <2>3. TypeOK'
    BY <1>2, <2>2 DEF TypeOK, settleSession, store
  <2>4. OrdersInv' /\ RefundsInv' /\ AbortsInv'
    BY <1>2, <2>2, Undisturbed DEF settleSession, store
  <2> QED BY <2>2, <2>3, <2>4
<1>3. CASE findPayment(p)
  <2>1. op[p].sid \in Sessions
    BY <1>0, <1>3 DEF findPayment, Held
  <2>2. /\ op' \in [Procs -> Request] /\ RequestsInv'
        /\ \A q \in Procs : q # p => op'[q] = op[q]
        /\ op'[p].kind \notin {"order", "refund"}
        /\ op'[p].again => op[p].again
    BY <1>3, <2>1, WentOn, Continued DEF findPayment
  <2>3. TypeOK'
    BY <1>3, <2>2 DEF TypeOK, findPayment, store
  <2>4. OrdersInv' /\ RefundsInv' /\ AbortsInv'
    BY <1>3, <2>2, Undisturbed DEF findPayment, store
  <2> QED BY <2>2, <2>3, <2>4
<1>4. CASE createPayment(p)
  <2>1. op[p].sid \in Sessions
    BY <1>0, <1>4 DEF createPayment, Held
  <2>2. /\ op' \in [Procs -> Request] /\ RequestsInv'
        /\ \A q \in Procs : q # p => op'[q] = op[q]
        /\ op'[p].kind \notin {"order", "refund"}
        /\ op'[p].again => op[p].again
    BY <1>4, <2>1, WentOn, Continued DEF createPayment
  <2>3. pay' \in [Sessions -> PaymentStatuses] /\ due' \in Seq(Sessions)
    <3>1. <<op[p].sid>> \in Seq(Sessions) /\ due \in Seq(Sessions)
      BY <2>1 DEF TypeOK
    <3>2. <<op[p].sid>> \o due \in Seq(Sessions)
      BY <3>1
    <3>3. due' \in Seq(Sessions)
      BY <1>4, <3>1, <3>2 DEF createPayment
    <3>4. pay' \in [Sessions -> PaymentStatuses]
      BY <1>4, <2>1 DEF TypeOK, createPayment, PaymentStatuses
    <3> QED BY <3>3, <3>4
  <2>4. TypeOK'
    BY <1>4, <2>2, <2>3 DEF TypeOK, createPayment, money
  <2>5. OrdersInv' /\ RefundsInv' /\ AbortsInv'
    BY <1>4, <2>2, Undisturbed DEF createPayment
  <2> QED BY <2>2, <2>4, <2>5
<1>5. CASE collect(p)
  <2>1. op[p].sid \in Sessions
    BY <1>0, <1>5 DEF collect, Held
  <2>2. /\ op' \in [Procs -> Request] /\ RequestsInv'
        /\ \A q \in Procs : q # p => op'[q] = op[q]
        /\ op'[p].kind \notin {"order", "refund"}
        /\ op'[p].again => op[p].again
    BY <1>5, <2>1, WentOn, Continued DEF collect
  <2>3. bal' \in [Drivers -> Nat] /\ ledger' \in [Drivers -> Seq(Entry)]
    BY <1>5, <2>1, DebitType DEF collect, money, TypeOK
  <2>4. pay' \in [Sessions -> PaymentStatuses] /\ unpaid' \subseteq Sessions
    BY <1>5, <2>1 DEF collect, TypeOK, PaymentStatuses, Projected
  <2>5. due' \in Seq(Sessions)
    BY <1>5, <2>1, NotDueType DEF collect, TypeOK
  <2>6. TypeOK'
    BY <1>5, <2>2, <2>3, <2>4, <2>5 DEF TypeOK, collect
  <2>7. OrdersInv' /\ RefundsInv' /\ AbortsInv'
    BY <1>5, <2>2, Undisturbed DEF collect
  <2> QED BY <2>2, <2>6, <2>7
<1>6. CASE defer(p)
  <2>1. /\ op' \in [Procs -> Request] /\ RequestsInv'
        /\ \A q \in Procs : q # p => op'[q] = op[q]
        /\ op'[p].kind \notin {"order", "refund"}
        /\ op'[p].again => op[p].again
    BY <1>6, Left, Continued DEF defer, Idle
  <2>2. due' \in Seq(Sessions)
    BY <1>6, NotDueType DEF defer, TypeOK
  <2>3. TypeOK'
    BY <1>6, <2>1, <2>2 DEF TypeOK, defer, money
  <2>4. OrdersInv' /\ RefundsInv' /\ AbortsInv'
    BY <1>6, <2>1, Undisturbed DEF defer
  <2> QED BY <2>1, <2>3, <2>4
<1> QED
  BY <1>1, <1>2, <1>3, <1>4, <1>5, <1>6

\* The steps of a recharge and of its reversal.
LEMMA RechargeSteps ==
  ASSUME TypeInv, NEW p \in Procs,
         saveOrder(p) \/ credit(p) \/ settleOutstandingForUser(p) \/ refund(p)
  PROVE  TypeInv'
<1> USE DEF TypeInv
<1>0. op[p] \in Request /\ Held(op[p]) /\ op \in [Procs -> Request] /\ rech \in [Recharges -> RechargeStatuses]
  BY DEF TypeOK, RequestsInv
<1>1. CASE saveOrder(p)
  <2>1. op[p].rid \in Recharges
    BY <1>0, <1>1 DEF saveOrder, Held
  <2>2. /\ op' \in [Procs -> Request] /\ RequestsInv' /\ op'[p] = Idle
        /\ \A q \in Procs : q # p => op'[q] = op[q]
    BY <1>1, Left DEF saveOrder
  <2>3. /\ rech' \in [Recharges -> RechargeStatuses]
        /\ \A r \in Recharges : r # op[p].rid => rech'[r] = rech[r]
        /\ rech[op[p].rid] = "pending"
    BY <1>0, <1>1, <2>1 DEF saveOrder, RechargeStatuses, OrdersInv
  <2>4. TypeOK'
    BY <1>1, <2>2, <2>3 DEF TypeOK, saveOrder, money
  <2>5. OrdersInv'
    <3> SUFFICES ASSUME NEW q \in Procs, op'[q].kind = "order"
                 PROVE  /\ rech'[op'[q].rid] = "pending"
                        /\ \A u \in Procs : op'[u].kind = "order" /\ op'[u].rid = op'[q].rid => u = q
      BY DEF OrdersInv
    <3>1. q # p /\ op'[q] = op[q]
      BY <2>2 DEF Idle
    <3>2. op[q].rid \in Recharges /\ op[q].rid # op[p].rid /\ rech[op[q].rid] = "pending"
      BY <1>1, <3>1 DEF OrdersInv, RequestsInv, Held, saveOrder
    <3>3. \A u \in Procs : op'[u].kind = "order" => u # p /\ op'[u] = op[u]
      BY <2>2 DEF Idle
    <3> QED
      BY <2>3, <3>1, <3>2, <3>3 DEF OrdersInv
  <2>6. RefundsInv'
    <3> SUFFICES ASSUME NEW q \in Procs, op'[q].kind = "refund"
                 PROVE  rech'[op'[q].rid] \in {"paid", "refunded"}
      BY DEF RefundsInv
    <3>1. op'[q] = op[q]
      BY <2>2 DEF Idle
    <3>2. op[q].rid \in Recharges /\ rech[op[q].rid] \in {"paid", "refunded"}
      BY <3>1 DEF RefundsInv, RequestsInv, Held
    <3> QED
      BY <2>3, <3>1, <3>2
  <2>7. AbortsInv'
    BY <1>1, <2>2 DEF AbortsInv, saveOrder, Idle
  <2> QED BY <2>2, <2>4, <2>5, <2>6, <2>7
<1>2. CASE credit(p)
  <2>1. op[p].rid \in Recharges
    BY <1>0, <1>2 DEF credit, Held
  <2>2. /\ op' \in [Procs -> Request] /\ RequestsInv'
        /\ op'[p].kind \in {"idle", "outstanding"} /\ (op'[p].again => op[p].again)
        /\ \A q \in Procs : q # p => op'[q] = op[q]
    BY <1>2, <2>1, Left, WentOn DEF credit, Idle
  <2>3. bal' \in [Drivers -> Nat] /\ ledger' \in [Drivers -> Seq(Entry)]
    BY <1>2, <2>1, CreditType DEF credit, money, TypeOK
  <2>4. /\ rech' \in [Recharges -> RechargeStatuses]
        /\ \A r \in Recharges : rech'[r] = rech[r] \/ (rech[r] = "ordered" /\ rech'[r] = "paid")
    BY <1>0, <1>2, <2>1 DEF credit, RechargeStatuses, Unclaimed
  <2>5. TypeOK'
    BY <1>2, <2>2, <2>3, <2>4 DEF TypeOK, credit
  <2>6. OrdersInv'
    <3> SUFFICES ASSUME NEW q \in Procs, op'[q].kind = "order"
                 PROVE  /\ rech'[op'[q].rid] = "pending"
                        /\ \A u \in Procs : op'[u].kind = "order" /\ op'[u].rid = op'[q].rid => u = q
      BY DEF OrdersInv
    <3>1. \A u \in Procs : op'[u].kind = "order" => op'[u] = op[u]
      BY <2>2
    <3>2. op[q].rid \in Recharges /\ rech[op[q].rid] = "pending"
      BY <3>1 DEF OrdersInv, RequestsInv, Held
    <3> QED
      BY <2>4, <3>1, <3>2 DEF OrdersInv
  <2>7. RefundsInv'
    <3> SUFFICES ASSUME NEW q \in Procs, op'[q].kind = "refund"
                 PROVE  rech'[op'[q].rid] \in {"paid", "refunded"}
      BY DEF RefundsInv
    <3>1. op'[q] = op[q]
      BY <2>2
    <3>2. op[q].rid \in Recharges /\ rech[op[q].rid] \in {"paid", "refunded"}
      BY <3>1 DEF RefundsInv, RequestsInv, Held
    <3> QED
      BY <2>4, <3>1, <3>2
  <2>8. AbortsInv'
    BY <1>2, <2>2 DEF AbortsInv, credit
  <2> QED BY <2>2, <2>5, <2>6, <2>7, <2>8
<1>3. CASE settleOutstandingForUser(p)
  <2> DEFINE mine == {s \in Owed : WalletOf[s] = WalletOf[op[p].rid]}
  <2>1. /\ op' \in [Procs -> Request] /\ RequestsInv'
        /\ op'[p].kind \in {"idle", "next"} /\ ~op'[p].again
        /\ \A q \in Procs : q # p => op'[q] = op[q]
    <3>1. CASE mine = {}
      BY <1>3, <3>1, Left DEF settleOutstandingForUser, Idle
    <3>2. CASE mine # {}
      <4>1. PICK w \in SetToSeqs(mine) : Enter(p, [Idle EXCEPT !.kind = "next", !.todo = w, !.stop = TRUE])
        BY <1>3, <3>2 DEF settleOutstandingForUser
      <4>2. mine \in SUBSET Sessions
        BY DEF Owed
      <4>3. w \in Seq(Sessions) /\ w # <<>>
        BY <3>2, <4>1, <4>2, OrderType
      <4> DEFINE h == [Idle EXCEPT !.kind = "next", !.todo = w, !.stop = TRUE]
      <4>4. h \in Request /\ h.kind = "next" /\ h.todo = w /\ ~h.again
        BY <4>3, IdleType DEF Idle, Request, Kinds
      <4>5. Held(h)
        BY <4>3, <4>4 DEF Held
      <4>6. Enter(p, h)
        BY <4>1
      <4> HIDE DEF h
      <4> QED BY <4>4, <4>5, <4>6, Entered
    <3> QED BY <3>1, <3>2
  <2>2. TypeOK'
    BY <1>3, <2>1 DEF TypeOK, settleOutstandingForUser, store
  <2>3. OrdersInv' /\ RefundsInv' /\ AbortsInv'
    BY <1>3, <2>1, Undisturbed DEF settleOutstandingForUser, store
  <2> QED BY <2>1, <2>2, <2>3
<1>4. CASE refund(p)
  <2>1. op[p].rid \in Recharges /\ rech[op[p].rid] \in {"paid", "refunded"}
    BY <1>0, <1>4 DEF refund, Held, RefundsInv
  <2>2. /\ op' \in [Procs -> Request] /\ RequestsInv' /\ op'[p] = Idle
        /\ \A q \in Procs : q # p => op'[q] = op[q]
    BY <1>4, Left DEF refund
  <2>3. bal' \in [Drivers -> Nat] /\ ledger' \in [Drivers -> Seq(Entry)]
    BY <1>4, <2>1, DebitType DEF refund, money, TypeOK
  <2>4. /\ rech' \in [Recharges -> RechargeStatuses]
        /\ \A r \in Recharges : \/ rech'[r] = rech[r]
                                \/ rech[r] \in {"paid", "refunded"} /\ rech'[r] = "refunded"
    BY <1>0, <1>4, <2>1 DEF refund, RechargeStatuses
  <2>5. TypeOK'
    BY <1>4, <2>2, <2>3, <2>4 DEF TypeOK, refund
  <2>6. OrdersInv'
    <3> SUFFICES ASSUME NEW q \in Procs, op'[q].kind = "order"
                 PROVE  /\ rech'[op'[q].rid] = "pending"
                        /\ \A u \in Procs : op'[u].kind = "order" /\ op'[u].rid = op'[q].rid => u = q
      BY DEF OrdersInv
    <3>1. \A u \in Procs : op'[u].kind = "order" => op'[u] = op[u]
      BY <2>2 DEF Idle
    <3>2. op[q].rid \in Recharges /\ rech[op[q].rid] = "pending"
      BY <3>1 DEF OrdersInv, RequestsInv, Held
    <3> QED
      BY <2>4, <3>1, <3>2 DEF OrdersInv
  <2>7. RefundsInv'
    <3> SUFFICES ASSUME NEW q \in Procs, op'[q].kind = "refund"
                 PROVE  rech'[op'[q].rid] \in {"paid", "refunded"}
      BY DEF RefundsInv
    <3>1. op'[q] = op[q]
      BY <2>2 DEF Idle
    <3>2. op[q].rid \in Recharges /\ rech[op[q].rid] \in {"paid", "refunded"}
      BY <3>1 DEF RefundsInv, RequestsInv, Held
    <3> QED
      BY <2>4, <3>1, <3>2
  <2>8. AbortsInv'
    BY <1>4, <2>2 DEF AbortsInv, refund, Idle
  <2> QED BY <2>2, <2>5, <2>6, <2>7, <2>8
<1> QED
  BY <1>1, <1>2, <1>3, <1>4

\* Requests that arrive.
LEMMA ArrivalSteps ==
  ASSUME TypeInv, NEW p \in Slots, Arrival(p)
  PROVE  TypeInv'
<1> USE DEF TypeInv
<1>0. p \in Procs /\ op \in [Procs -> Request] /\ rech \in [Recharges -> RechargeStatuses]
  BY DEF Procs, TypeOK
<1>1. ASSUME NEW s \in Sessions, settleInline(p, s) PROVE TypeInv'
  <2>1. Enter(p, [Idle EXCEPT !.kind = "settle", !.sid = s]) /\ UNCHANGED <<store, aborts, crashes>>
    BY <1>1 DEF settleInline
  <2>2. /\ op' \in [Procs -> Request] /\ RequestsInv'
        /\ op'[p].kind = "settle" /\ ~op'[p].again
        /\ \A q \in Procs : q # p => op'[q] = op[q]
    BY <1>0, <2>1, Arrived
  <2>3. TypeOK'
    BY <2>1, <2>2 DEF TypeOK, store
  <2>4. OrdersInv' /\ RefundsInv' /\ AbortsInv'
    BY <1>0, <2>1, <2>2, Undisturbed DEF store
  <2> QED BY <2>2, <2>3, <2>4
<1>2. ASSUME NEW r \in Recharges, createRechargeOrder(p, r) PROVE TypeInv'
  <2> DEFINE h == [Idle EXCEPT !.kind = "order", !.rid = r]
  <2>1. Enter(p, h) /\ rech[r] = "none" /\ rech' = [rech EXCEPT ![r] = "pending"]
    BY <1>2 DEF createRechargeOrder
  <2>2. h \in Request /\ Held(h) /\ h.kind = "order" /\ h.rid = r /\ ~h.again
    BY IdleType DEF Idle, Request, Kinds, Held
  <2> HIDE DEF h
  <2>3. /\ op' \in [Procs -> Request] /\ RequestsInv' /\ op'[p] = h
        /\ \A q \in Procs : q # p => op'[q] = op[q]
    BY <1>0, <2>1, <2>2, Entered
  <2>4. /\ rech' \in [Recharges -> RechargeStatuses]
        /\ \A u \in Recharges : u # r => rech'[u] = rech[u]
        /\ rech'[r] = "pending"
    BY <1>0, <2>1 DEF RechargeStatuses
  <2>5. TypeOK'
    BY <1>2, <2>3, <2>4 DEF TypeOK, createRechargeOrder, money
  <2>6. OrdersInv'
    <3>1. \A q \in Procs : q # p /\ op'[q].kind = "order" =>
            op[q].rid \in Recharges /\ op[q].rid # r /\ rech[op[q].rid] = "pending" /\ op'[q] = op[q]
      BY <2>1, <2>3 DEF OrdersInv, RequestsInv, Held
    <3>2. \A q \in Procs : op'[q].kind = "order" => rech'[op'[q].rid] = "pending"
      BY <2>2, <2>3, <2>4, <3>1
    <3>3. ASSUME NEW q \in Procs, NEW u \in Procs, op'[q].kind = "order", op'[u].kind = "order",
                 op'[u].rid = op'[q].rid
          PROVE  u = q
      <4>1. CASE u = p \/ q = p
        BY <2>2, <2>3, <3>1, <3>3, <4>1
      <4>2. CASE u # p /\ q # p
        BY <3>1, <3>3, <4>2 DEF OrdersInv
      <4> QED BY <4>1, <4>2
    <3> QED BY <3>2, <3>3 DEF OrdersInv
  <2>7. RefundsInv'
    BY <2>1, <2>2, <2>3, <2>4 DEF RefundsInv, RequestsInv, Held
  <2>8. AbortsInv'
    BY <1>2, <2>2, <2>3 DEF AbortsInv, createRechargeOrder
  <2> QED BY <2>3, <2>5, <2>6, <2>7, <2>8
<1>3. ASSUME NEW r \in Recharges, verifyAndCredit(p, r) PROVE TypeInv'
  <2>1. Enter(p, [Idle EXCEPT !.kind = "credit", !.rid = r]) /\ UNCHANGED <<store, aborts, crashes>>
    BY <1>3 DEF verifyAndCredit
  <2>2. /\ op' \in [Procs -> Request] /\ RequestsInv'
        /\ op'[p].kind = "credit" /\ ~op'[p].again
        /\ \A q \in Procs : q # p => op'[q] = op[q]
    BY <1>0, <2>1, Arrived
  <2>3. TypeOK'
    BY <2>1, <2>2 DEF TypeOK, store
  <2>4. OrdersInv' /\ RefundsInv' /\ AbortsInv'
    BY <1>0, <2>1, <2>2, Undisturbed DEF store
  <2> QED BY <2>2, <2>3, <2>4
<1>4. ASSUME NEW r \in Recharges, refundRecharge(p, r) PROVE TypeInv'
  <2> DEFINE h == [Idle EXCEPT !.kind = "refund", !.rid = r]
  <2>1. Enter(p, h) /\ rech[r] = "paid" /\ UNCHANGED <<store, aborts, crashes>>
    BY <1>4 DEF refundRecharge
  <2>2. h \in Request /\ Held(h) /\ h.kind = "refund" /\ h.rid = r /\ ~h.again
    BY IdleType DEF Idle, Request, Kinds, Held
  <2> HIDE DEF h
  <2>3. /\ op' \in [Procs -> Request] /\ RequestsInv' /\ op'[p] = h
        /\ \A q \in Procs : q # p => op'[q] = op[q]
    BY <1>0, <2>1, <2>2, Entered
  <2>4. TypeOK'
    BY <2>1, <2>3 DEF TypeOK, store
  <2>5. OrdersInv'
    BY <2>1, <2>2, <2>3 DEF OrdersInv, store
  <2>6. RefundsInv'
    BY <2>1, <2>2, <2>3 DEF RefundsInv, store
  <2>7. AbortsInv'
    BY <2>1, <2>2, <2>3 DEF AbortsInv
  <2> QED BY <2>3, <2>4, <2>5, <2>6, <2>7
<1> QED
  BY <1>1, <1>2, <1>3, <1>4 DEF Arrival

\* The sweep.
LEMMA SweepSteps ==
  ASSUME TypeInv, SweepStart
  PROVE  TypeInv'
<1> USE DEF TypeInv
<1>0. Sweeper \in Procs /\ op[Sweeper] \in Request /\ Held(op[Sweeper]) /\ Batch \in Nat
  BY MoneyAssumption DEF Procs, TypeOK, RequestsInv, MoneyAssumption
<1>1. UNCHANGED <<store, aborts, crashes>>
  BY DEF SweepStart, sweepOrphans, sweepDue
<1>2. /\ op' \in [Procs -> Request] /\ RequestsInv'
      /\ op'[Sweeper].kind \notin {"order", "refund"} /\ (op'[Sweeper].again => op[Sweeper].again)
      /\ \A q \in Procs : q # Sweeper => op'[q] = op[q]
  <2>1. CASE sweepOrphans
    <3>1. PICK w \in Listed(Orphans, Batch) : Enter(Sweeper, [Idle EXCEPT !.kind = "due", !.todo = w])
      BY <2>1 DEF sweepOrphans
    <3>2. Orphans \in SUBSET Sessions
      BY DEF Orphans, Owed
    <3>3. w \in Seq(Sessions) /\ Len(w) <= Batch
      BY <1>0, <3>1, <3>2, ListedType
    <3> DEFINE h == [Idle EXCEPT !.kind = "due", !.todo = w]
    <3>4. h \in Request /\ h.kind = "due" /\ h.todo = w /\ ~h.again
      BY <3>3, IdleType DEF Idle, Request, Kinds
    <3>5. Held(h)
      BY <3>3, <3>4 DEF Held
    <3>6. Enter(Sweeper, h)
      BY <3>1
    <3> HIDE DEF h
    <3> QED BY <1>0, <3>4, <3>5, <3>6, Entered
  <2>2. CASE sweepDue
    <3> DEFINE found == op[Sweeper].todo \o DueFirst(Batch - Len(op[Sweeper].todo))
               h == [op[Sweeper] EXCEPT !.kind = "next", !.todo = found]
    <3>1. op[Sweeper].todo \in Seq(Sessions) /\ Len(op[Sweeper].todo) <= Batch
      BY <1>0, <2>2 DEF sweepDue, Request, Held
    <3>2. Batch - Len(op[Sweeper].todo) \in Nat
      BY <1>0, <3>1
    <3>3. found \in Seq(Sessions)
      <4>1. DueFirst(Batch - Len(op[Sweeper].todo)) \in Seq(Sessions)
        BY <3>2, DueFirstType DEF TypeOK
      <4> QED BY <3>1, <4>1
    <3> HIDE DEF found
    <3>4. CASE found = <<>>
      BY <1>0, <2>2, <3>4, Left DEF sweepDue, found, Idle
    <3>5. CASE found # <<>>
      <4>1. h \in Request /\ h.kind = "next" /\ h.todo = found /\ h.again = op[Sweeper].again
        BY <1>0, <3>3 DEF Request, Kinds
      <4>2. Held(h)
        BY <3>5, <4>1 DEF Held
      <4>3. Enter(Sweeper, h)
        BY <2>2, <3>5 DEF sweepDue, found
      <4> HIDE DEF h
      <4> QED BY <1>0, <4>1, <4>2, <4>3, Entered
    <3> QED BY <3>4, <3>5
  <2> QED BY <2>1, <2>2 DEF SweepStart
<1>3. TypeOK'
  BY <1>1, <1>2 DEF TypeOK, store
<1>4. OrdersInv' /\ RefundsInv' /\ AbortsInv'
  BY <1>0, <1>1, <1>2, Undisturbed DEF store
<1> QED
  BY <1>2, <1>3, <1>4

\* Every step keeps the invariant.
LEMMA TypeInvNext == TypeInv /\ [Next]_vars => TypeInv'
<1> SUFFICES ASSUME TypeInv, [Next]_vars PROVE TypeInv'
  OBVIOUS
<1> USE DEF TypeInv
<1>0. op \in [Procs -> Request] /\ aborts \in 0..MaxAborts /\ crashes \in 0..MaxCrashes
  BY DEF TypeOK
<1>1. ASSUME NEW p \in Procs, RequestStep(p) PROVE TypeInv'
  BY <1>1, SettlementSteps, RechargeSteps DEF RequestStep
<1>2. ASSUME NEW p \in Procs, commitAborts(p) PROVE TypeInv'
  <2> DEFINE h == [op[p] EXCEPT !.again = TRUE]
  <2>1. op[p] \in Request /\ Held(op[p])
    BY <1>0 DEF RequestsInv
  <2>2. /\ h \in Request /\ h.again
        /\ h.kind = op[p].kind /\ h.sid = op[p].sid /\ h.rid = op[p].rid /\ h.todo = op[p].todo
    BY <2>1 DEF Request
  <2>3. Held(h)
    BY <2>1, <2>2 DEF Held
  <2>4. Enter(p, h) /\ UNCHANGED <<store, crashes>> /\ aborts < MaxAborts /\ aborts' = aborts + 1
    BY <1>2 DEF commitAborts
  <2> HIDE DEF h
  <2>5. /\ op' \in [Procs -> Request] /\ RequestsInv' /\ op'[p] = h
        /\ \A q \in Procs : q # p => op'[q] = op[q]
    BY <2>2, <2>3, <2>4, Entered
  <2>6. aborts' \in 0..MaxAborts /\ aborts' > 0
    BY <1>0, <2>4, MoneyAssumption DEF MoneyAssumption
  <2>7. TypeOK'
    BY <2>4, <2>5, <2>6 DEF TypeOK, store
  <2>8. \A q \in Procs : op'[q].kind = op[q].kind /\ op'[q].rid = op[q].rid
    BY <2>2, <2>5
  <2>9. OrdersInv' /\ RefundsInv'
    BY <2>4, <2>8 DEF OrdersInv, RefundsInv, store
  <2>10. AbortsInv'
    BY <2>6 DEF AbortsInv
  <2> QED BY <2>5, <2>7, <2>9, <2>10
<1>3. ASSUME NEW p \in Slots, Arrival(p) PROVE TypeInv'
  BY <1>3, ArrivalSteps
<1>4. CASE SweepStart
  BY <1>4, SweepSteps
<1>5. ASSUME NEW s \in Sessions, price(s) PROVE TypeInv'
  <2>1. priced' \subseteq Sessions /\ unpaid' \subseteq Sessions
    BY <1>5 DEF price, TypeOK
  <2>2. TypeOK'
    BY <1>5, <2>1 DEF TypeOK, price, money
  <2>3. RequestsInv' /\ OrdersInv' /\ RefundsInv' /\ AbortsInv'
    BY <1>5 DEF price, RequestsInv, OrdersInv, RefundsInv, AbortsInv
  <2> QED BY <2>2, <2>3
<1>6. ASSUME NEW s \in Sessions, backoffElapses(s) PROVE TypeInv'
  <2>1. due' \in Seq(Sessions)
    BY <1>6 DEF backoffElapses, TypeOK
  <2>2. TypeOK'
    BY <1>6, <2>1 DEF TypeOK, backoffElapses, money
  <2>3. RequestsInv' /\ OrdersInv' /\ RefundsInv' /\ AbortsInv'
    BY <1>6 DEF backoffElapses, RequestsInv, OrdersInv, RefundsInv, AbortsInv
  <2> QED BY <2>2, <2>3
<1>7. ASSUME NEW r \in Recharges, capture(r) PROVE TypeInv'
  <2>1. captured' \subseteq Recharges
    BY <1>7 DEF capture, TypeOK
  <2>2. TypeOK'
    BY <1>7, <2>1 DEF TypeOK, capture, money
  <2>3. RequestsInv' /\ OrdersInv' /\ RefundsInv' /\ AbortsInv'
    BY <1>7 DEF capture, RequestsInv, OrdersInv, RefundsInv, AbortsInv
  <2> QED BY <2>2, <2>3
<1>8. CASE crash
  <2>1. op' = [p \in Procs |-> Idle] /\ UNCHANGED <<store, aborts>>
    BY <1>8 DEF crash
  <2>2. op' \in [Procs -> Request] /\ \A p \in Procs : op'[p] = Idle
    BY <2>1, IdleType
  <2>3. crashes' \in 0..MaxCrashes
    BY <1>0, <1>8, MoneyAssumption DEF crash, MoneyAssumption
  <2>4. TypeOK'
    BY <2>1, <2>2, <2>3 DEF TypeOK, store
  <2>5. RequestsInv'
    BY <2>2, IdleType DEF RequestsInv, Held
  <2>6. OrdersInv' /\ RefundsInv' /\ AbortsInv'
    BY <2>2 DEF OrdersInv, RefundsInv, AbortsInv, Idle
  <2> QED BY <2>4, <2>5, <2>6
<1>9. CASE UNCHANGED vars
  BY <1>9 DEF vars, TypeOK, RequestsInv, OrdersInv, RefundsInv, AbortsInv
<1> QED
  BY <1>1, <1>2, <1>3, <1>4, <1>5, <1>6, <1>7, <1>8, <1>9 DEF Next

\* The inductive invariant of the requests holds in every reachable state: what
\* a suspended request relies on is still so when it resumes.
THEOREM Requests == Spec => []TypeInv
BY TypeInvInit, TypeInvNext, PTL DEF Spec

\* The state has its type in every reachable state; in particular no
\* interleaving of debits, collections and reversals overdraws a wallet
\* (the balance in atomicDebit's filter).
THEOREM NeverOverdrawn == Spec => []TypeOK
<1>1. TypeInv => TypeOK
  BY DEF TypeInv
<1> QED
  BY <1>1, Requests, PTL

-----------------------------------------------------------------------------
(* Every way money moves *)

Credited(r) == rech[r] \in {"paid", "refunded"}

\* The step moves no money, pays no payment and credits no recharge.
Still ==
  /\ UNCHANGED <<bal, ledger>>
  /\ \A s \in Sessions : pay'[s] = "paid" <=> pay[s] = "paid"
  /\ \A r \in Recharges : Credited(r)' <=> Credited(r)

Collects(s) ==
  /\ Covers(s) /\ pay[s] = "pending"
  /\ atomicDebit(s, "session_debit")
  /\ pay' = [pay EXCEPT ![s] = "paid"]
  /\ UNCHANGED rech

Credits(r) ==
  /\ rech[r] = "ordered"
  /\ atomicCredit(r)
  /\ rech' = [rech EXCEPT ![r] = "paid"]
  /\ UNCHANGED pay

Reverses(r) ==
  /\ Credited(r) /\ Covers(r)
  /\ atomicDebit(r, "refund")
  /\ \A u \in Recharges : Credited(u)' <=> Credited(u)
  /\ UNCHANGED pay

\* Whatever request takes it, a step leaves the money alone or moves it in one
\* of three ways.
LEMMA Movements ==
  ASSUME TypeInv, [Next]_vars
  PROVE  \/ Still
         \/ \E s \in Sessions : Collects(s)
         \/ \E r \in Recharges : Credits(r) \/ Reverses(r)
<1>0. /\ pay \in [Sessions -> PaymentStatuses] /\ rech \in [Recharges -> RechargeStatuses]
      /\ RequestsInv /\ OrdersInv /\ RefundsInv
  BY DEF TypeInv, TypeOK
<1>1. ASSUME NEW p \in Procs, collect(p) PROVE Still \/ \E s \in Sessions : Collects(s)
  <2>1. op[p].sid \in Sessions
    BY <1>0, <1>1 DEF RequestsInv, Held, collect
  <2>2. CASE Covers(op[p].sid) /\ Claimable(op[p].sid)
    <3>1. Collects(op[p].sid)
      BY <1>1, <2>2 DEF collect, Collects, Claimable
    <3> QED BY <2>1, <3>1
  <2>3. CASE ~(Covers(op[p].sid) /\ Claimable(op[p].sid))
    BY <1>1, <2>3 DEF collect, Still, money, Credited
  <2> QED BY <2>2, <2>3
<1>2. ASSUME NEW p \in Procs, credit(p) PROVE Still \/ \E r \in Recharges : Credits(r)
  <2>1. op[p].rid \in Recharges
    BY <1>0, <1>2 DEF RequestsInv, Held, credit
  <2>2. CASE Unclaimed(op[p].rid)
    <3>1. Credits(op[p].rid)
      BY <1>2, <2>2 DEF credit, Credits, Unclaimed
    <3> QED BY <2>1, <3>1
  <2>3. CASE ~Unclaimed(op[p].rid)
    BY <1>2, <2>3 DEF credit, Still, money, Credited
  <2> QED BY <2>2, <2>3
<1>3. ASSUME NEW p \in Procs, refund(p) PROVE Still \/ \E r \in Recharges : Reverses(r)
  <2>1. op[p].rid \in Recharges /\ Credited(op[p].rid)
    BY <1>0, <1>3 DEF RequestsInv, Held, refund, RefundsInv, Credited
  <2>2. CASE Covers(op[p].rid)
    <3>1. \A u \in Recharges : Credited(u)' <=> Credited(u)
      BY <1>0, <1>3, <2>1, <2>2 DEF refund, Credited
    <3>2. Reverses(op[p].rid)
      BY <1>3, <2>1, <2>2, <3>1 DEF refund, Reverses
    <3> QED BY <2>1, <3>2
  <2>3. CASE ~Covers(op[p].rid)
    BY <1>3, <2>3 DEF refund, Still, money, Credited
  <2> QED BY <2>2, <2>3
<1>4. ASSUME NEW p \in Procs, createPayment(p) PROVE Still
  <2>1. op[p].sid \in Sessions
    BY <1>0, <1>4 DEF RequestsInv, Held, createPayment
  <2>2. \A s \in Sessions : pay'[s] = "paid" <=> pay[s] = "paid"
    BY <1>0, <1>4, <2>1 DEF createPayment
  <2> QED BY <1>4, <2>2 DEF createPayment, Still, money, Credited
<1>5. ASSUME NEW p \in Procs, saveOrder(p) PROVE Still
  <2>1. op[p].rid \in Recharges /\ rech[op[p].rid] = "pending"
    BY <1>0, <1>5 DEF RequestsInv, Held, OrdersInv, saveOrder
  <2>2. \A r \in Recharges : Credited(r)' <=> Credited(r)
    BY <1>0, <1>5, <2>1 DEF saveOrder, Credited
  <2> QED BY <1>5, <2>2 DEF saveOrder, Still, money
<1>6. ASSUME NEW p \in Slots, NEW r \in Recharges, createRechargeOrder(p, r) PROVE Still
  <2>1. \A u \in Recharges : Credited(u)' <=> Credited(u)
    BY <1>0, <1>6 DEF createRechargeOrder, Credited
  <2> QED BY <1>6, <2>1 DEF createRechargeOrder, Still, money
<1>7. ASSUME UNCHANGED <<bal, ledger, pay, rech>> PROVE Still
  BY <1>7 DEF Still, Credited
<1>8. ASSUME NEW p \in Procs, RequestStep(p) \/ commitAborts(p)
      PROVE  \/ Still \/ \E s \in Sessions : Collects(s)
             \/ \E r \in Recharges : Credits(r) \/ Reverses(r)
  <2>1. \/ collect(p) \/ credit(p) \/ refund(p) \/ createPayment(p) \/ saveOrder(p)
        \/ UNCHANGED <<bal, ledger, pay, rech>>
    BY <1>8 DEF RequestStep, commitAborts, nextDebt, settleSession, findPayment, defer,
                settleOutstandingForUser, store, money
  <2> QED BY <1>1, <1>2, <1>3, <1>4, <1>5, <1>7, <2>1
<1>9. ASSUME NEW p \in Slots, Arrival(p) PROVE Still
  <2>1. (\E r \in Recharges : createRechargeOrder(p, r)) \/ UNCHANGED <<bal, ledger, pay, rech>>
    BY <1>9 DEF Arrival, settleInline, verifyAndCredit, refundRecharge, store
  <2> QED BY <1>6, <1>7, <2>1
<1>10. CASE \/ SweepStart \/ crash \/ UNCHANGED vars
            \/ \E s \in Sessions : price(s) \/ backoffElapses(s)
            \/ \E r \in Recharges : capture(r)
  <2>1. UNCHANGED <<bal, ledger, pay, rech>>
    BY <1>10 DEF SweepStart, sweepOrphans, sweepDue, crash, price, backoffElapses, capture,
                 store, money, vars
  <2> QED BY <1>7, <2>1
<1> QED
  BY <1>8, <1>9, <1>10 DEF Next

-----------------------------------------------------------------------------
(* Refinement *)

\* Empty wallets are initial accounts.
LEMMA InitRefines == Init => A!Init
BY DEF Init, A!Init

\* Every step is a step of Accounts or leaves the accounts alone.
LEMMA StepRefines ==
  ASSUME TypeInv, [Next]_vars
  PROVE  \/ A!Next
         \/ UNCHANGED <<bal, {r \in Recharges : rech[r] \in {"paid", "refunded"}},
                        {s \in Sessions : pay[s] = "paid"}>>
<1> DEFINE credited == {r \in Recharges : rech[r] \in {"paid", "refunded"}}
           collected == {s \in Sessions : pay[s] = "paid"}
<1>0. /\ pay \in [Sessions -> PaymentStatuses] /\ rech \in [Recharges -> RechargeStatuses]
      /\ bal \in [Drivers -> Nat]
  BY DEF TypeInv, TypeOK
<1>1. CASE Still
  BY <1>1 DEF Still, Credited
<1>2. ASSUME NEW s \in Sessions, Collects(s) PROVE A!Collect(s)
  <2>1. s \notin collected /\ collected' = collected \cup {s} /\ credited' = credited
    BY <1>0, <1>2 DEF Collects
  <2>2. bal[WalletOf[s]] >= Amount[s]
    BY <1>2 DEF Collects, Covers
  <2>3. bal' = [bal EXCEPT ![WalletOf[s]] = @ - Amount[s]]
    BY <1>2 DEF Collects, atomicDebit
  <2> QED BY <2>1, <2>2, <2>3 DEF A!Collect
<1>3. ASSUME NEW r \in Recharges, Credits(r) PROVE A!Credit(r)
  <2>1. r \notin credited /\ credited' = credited \cup {r} /\ collected' = collected
    BY <1>0, <1>3 DEF Credits
  <2>2. bal' = [bal EXCEPT ![WalletOf[r]] = @ + Amount[r]]
    BY <1>3 DEF Credits, atomicCredit
  <2> QED BY <2>1, <2>2 DEF A!Credit
<1>4. ASSUME NEW r \in Recharges, Reverses(r) PROVE A!Reverse(r)
  <2>1. r \in credited /\ credited' = credited /\ collected' = collected
    BY <1>4 DEF Reverses, Credited
  <2>2. bal[WalletOf[r]] >= Amount[r]
    BY <1>4 DEF Reverses, Covers
  <2>3. bal' = [bal EXCEPT ![WalletOf[r]] = @ - Amount[r]]
    BY <1>4 DEF Reverses, atomicDebit
  <2> QED BY <2>1, <2>2, <2>3 DEF A!Reverse
<1> QED
  BY <1>1, <1>2, <1>3, <1>4, Movements DEF A!Next

\* The payment code implements Accounts: whatever requests interleave, are
\* aborted or are cut short by a crash, money moves only by crediting a
\* recharge not yet credited, collecting a session not yet collected from a
\* balance that covers it, or reversing a credited recharge.
THEOREM Refinement == Spec => ImplementsAccounts
<1>1. TypeInv /\ [Next]_vars =>
        [A!Next]_<<bal, {r \in Recharges : rech[r] \in {"paid", "refunded"}},
                   {s \in Sessions : pay[s] = "paid"}>>
  BY StepRefines
<1> QED
  BY <1>1, InitRefines, Requests, PTL DEF Spec, ImplementsAccounts, A!Spec

-----------------------------------------------------------------------------
(* The ledger *)

\* A movement appends to one ledger the row that continues it.
LEMMA Chained ==
  ASSUME TypeOK, LedgerChained, NEW d \in Drivers, NEW e, e.before = bal[d],
         bal' = [bal EXCEPT ![d] = e.after],
         ledger' = [ledger EXCEPT ![d] = Append(@, e)]
  PROVE  LedgerChained'
<1> SUFFICES ASSUME NEW u \in Drivers
             PROVE  /\ \A i \in 1..Len(ledger'[u]) :
                         ledger'[u][i].before = IF i = 1 THEN 0 ELSE ledger'[u][i - 1].after
                    /\ bal'[u] = IF ledger'[u] = <<>> THEN 0 ELSE ledger'[u][Len(ledger'[u])].after
  BY DEF LedgerChained
<1>0. ledger \in [Drivers -> Seq(Entry)] /\ bal \in [Drivers -> Nat]
  BY DEF TypeOK
<1>1. CASE u # d
  BY <1>0, <1>1 DEF LedgerChained
<1>2. CASE u = d
  <2> DEFINE l == ledger[d]
  <2>1. l \in Seq(Entry) /\ Len(l) \in Nat
    BY <1>0
  <2>2. ledger'[u] = Append(l, e) /\ bal'[u] = e.after
    BY <1>0, <1>2
  <2>3. /\ Len(Append(l, e)) = Len(l) + 1 /\ Append(l, e)[Len(l) + 1] = e
        /\ \A i \in 1..Len(l) : Append(l, e)[i] = l[i]
        /\ Append(l, e) # <<>>
    BY <2>1, AppendProperties
  <2>4. /\ \A i \in 1..Len(l) : l[i].before = IF i = 1 THEN 0 ELSE l[i - 1].after
        /\ bal[d] = IF l = <<>> THEN 0 ELSE l[Len(l)].after
    BY DEF LedgerChained
  <2> DEFINE m == Append(l, e)
  <2>5. l = <<>> <=> Len(l) = 0
    BY <2>1
  <2> HIDE DEF m, l
  <2>6. ASSUME NEW i \in 1..(Len(l) + 1) PROVE m[i].before = IF i = 1 THEN 0 ELSE m[i - 1].after
    <3>1. CASE i \in 1..Len(l)
      BY <2>1, <2>3, <2>4, <3>1 DEF m
    <3>2. CASE i = Len(l) + 1
      <4>1. m[i].before = bal[d]
        BY <2>3, <3>2 DEF m
      <4>2. CASE Len(l) = 0
        BY <2>4, <2>5, <3>2, <4>1, <4>2
      <4>3. CASE Len(l) # 0
        <5>1. Len(l) \in 1..Len(l) /\ i # 1 /\ i - 1 = Len(l)
          BY <2>1, <3>2, <4>3
        <5>2. m[i - 1] = l[Len(l)]
          BY <2>3, <5>1 DEF m
        <5> QED BY <2>4, <2>5, <4>1, <4>3, <5>1, <5>2
      <4> QED BY <4>2, <4>3
    <3> QED BY <2>1, <3>1, <3>2
  <2> QED
    BY <2>1, <2>2, <2>3, <2>6 DEF m
<1> QED
  BY <1>1, <1>2

\* Every step keeps the ledgers chained.
LEMMA LedgerStep ==
  ASSUME TypeInv, LedgerChained, [Next]_vars
  PROVE  LedgerChained'
<1>0. TypeOK /\ bal \in [Drivers -> Nat] /\ ledger \in [Drivers -> Seq(Entry)]
  BY DEF TypeInv, TypeOK
<1>1. CASE Still
  BY <1>1 DEF Still, LedgerChained
<1>2. ASSUME NEW x \in Sessions \cup Recharges, NEW type, atomicDebit(x, type)
      PROVE  LedgerChained'
  <2> DEFINE d == WalletOf[x]
             e == [type |-> type, ref |-> x, before |-> bal[d], after |-> bal[d] - Amount[x]]
  <2>1. d \in Drivers
    BY MoneyAssumption DEF MoneyAssumption
  <2>2. e.before = bal[d] /\ e.after = bal[d] - Amount[x]
    OBVIOUS
  <2>3. bal' = [bal EXCEPT ![d] = e.after] /\ ledger' = [ledger EXCEPT ![d] = Append(@, e)]
    BY <1>0, <1>2 DEF atomicDebit
  <2> HIDE DEF e, d
  <2> QED BY <1>0, <2>1, <2>2, <2>3, Chained
<1>3. ASSUME NEW r \in Recharges, atomicCredit(r)
      PROVE  LedgerChained'
  <2> DEFINE d == WalletOf[r]
             e == [type |-> "recharge", ref |-> r, before |-> bal[d], after |-> bal[d] + Amount[r]]
  <2>1. d \in Drivers
    BY MoneyAssumption DEF MoneyAssumption
  <2>2. e.before = bal[d] /\ e.after = bal[d] + Amount[r]
    OBVIOUS
  <2>3. bal' = [bal EXCEPT ![d] = e.after] /\ ledger' = [ledger EXCEPT ![d] = Append(@, e)]
    BY <1>0, <1>3 DEF atomicCredit
  <2> HIDE DEF e, d
  <2> QED BY <1>0, <2>1, <2>2, <2>3, Chained
<1> QED
  BY <1>1, <1>2, <1>3, Movements DEF Collects, Credits, Reverses

\* In every wallet each ledger row starts where the one before it ended and the
\* stored balance is what the last row left (applyMovement, reconcile).
THEOREM LedgerReconciles == Spec => []LedgerChained
<1>1. Init => LedgerChained
  BY DEF Init, LedgerChained
<1>2. TypeInv /\ LedgerChained /\ [Next]_vars => LedgerChained'
  BY LedgerStep
<1> QED
  BY <1>1, <1>2, Requests, PTL DEF Spec

-----------------------------------------------------------------------------
(* One row for each payment *)

RowsOf(l, type, x) == {i \in 1..Len(l) : l[i].type = type /\ l[i].ref = x}

Debits(s) == RowsOf(ledger[WalletOf[s]], "session_debit", s)
Deposits(r) == RowsOf(ledger[WalletOf[r]], "recharge", r)

\* At most one row, there exactly when the payment says so.
RowsInv ==
  /\ \A s \in Sessions : /\ pay[s] = "paid" => \E i : Debits(s) = {i}
                         /\ pay[s] # "paid" => Debits(s) = {}
  /\ \A r \in Recharges : /\ Credited(r) => \E i : Deposits(r) = {i}
                          /\ ~Credited(r) => Deposits(r) = {}

\* m is l with the row e added at its end.
Extends(m, l, e) ==
  /\ Len(l) \in Nat /\ Len(m) = Len(l) + 1 /\ m[Len(l) + 1] = e
  /\ \A i \in 1..Len(l) : m[i] = l[i]

\* A new row adds its index to the rows of its kind and reference only.
LEMMA RowsAppended ==
  ASSUME NEW l, NEW m, NEW e, Extends(m, l, e), NEW type, NEW x
  PROVE  /\ e.type = type /\ e.ref = x => RowsOf(m, type, x) = RowsOf(l, type, x) \cup {Len(l) + 1}
         /\ e.type # type \/ e.ref # x => RowsOf(m, type, x) = RowsOf(l, type, x)
<1>1. 1..(Len(l) + 1) = (1..Len(l)) \cup {Len(l) + 1}
  BY DEF Extends
<1>2. RowsOf(m, type, x) = RowsOf(l, type, x) \cup {i \in {Len(l) + 1} : e.type = type /\ e.ref = x}
  BY <1>1 DEF RowsOf, Extends
<1> QED
  BY <1>2

\* Every step keeps one row for each payment.
LEMMA RowsStep ==
  ASSUME TypeInv, RowsInv, [Next]_vars
  PROVE  RowsInv'
<1>0. /\ TypeOK /\ pay \in [Sessions -> PaymentStatuses] /\ rech \in [Recharges -> RechargeStatuses]
      /\ ledger \in [Drivers -> Seq(Entry)]
  BY DEF TypeInv, TypeOK
<1>1. \A x \in Sessions \cup Recharges : WalletOf[x] \in Drivers
  BY MoneyAssumption DEF MoneyAssumption
<1>2. CASE Still
  <2>1. (\A s \in Sessions : Debits(s)' = Debits(s)) /\ (\A r \in Recharges : Deposits(r)' = Deposits(r))
    BY <1>2 DEF Still, Debits, Deposits
  <2> QED BY <1>2, <2>1 DEF Still, RowsInv
<1>3. ASSUME NEW s \in Sessions, Collects(s) PROVE RowsInv'
  <2> DEFINE d == WalletOf[s]
             e == [type |-> "session_debit", ref |-> s, before |-> bal[d], after |-> bal[d] - Amount[s]]
  <2>1. d \in Drivers /\ ledger' = [ledger EXCEPT ![d] = Append(@, e)]
    BY <1>3, <1>1 DEF Collects, atomicDebit
  <2>2. Extends(ledger'[d], ledger[d], e) /\ \A u \in Drivers : u # d => ledger'[u] = ledger[u]
    BY <1>0, <2>1, AppendProperties DEF Extends
  <2>3. e.type = "session_debit" /\ e.ref = s
    OBVIOUS
  <2> HIDE DEF e
  <2>4. Debits(s)' = Debits(s) \cup {Len(ledger[d]) + 1}
    BY <2>3, <2>2, RowsAppended DEF Debits
  <2>5. \A u \in Sessions : u # s => Debits(u)' = Debits(u)
    BY <1>1, <2>3, <2>2, RowsAppended DEF Debits
  <2>6. \A r \in Recharges : Deposits(r)' = Deposits(r)
    BY <1>1, <2>3, <2>2, RowsAppended DEF Deposits
  <2>7. /\ pay[s] = "pending" /\ pay'[s] = "paid"
        /\ \A u \in Sessions : u # s => pay'[u] = pay[u]
        /\ \A r \in Recharges : Credited(r)' <=> Credited(r)
    BY <1>0, <1>3 DEF Collects, Credited
  <2>8. Debits(s)' = {Len(ledger[d]) + 1}
    BY <2>4, <2>7 DEF RowsInv
  <2> QED
    BY <2>5, <2>6, <2>7, <2>8 DEF RowsInv
<1>4. ASSUME NEW r \in Recharges, Credits(r) PROVE RowsInv'
  <2> DEFINE d == WalletOf[r]
             e == [type |-> "recharge", ref |-> r, before |-> bal[d], after |-> bal[d] + Amount[r]]
  <2>1. d \in Drivers /\ ledger' = [ledger EXCEPT ![d] = Append(@, e)]
    BY <1>4, <1>1 DEF Credits, atomicCredit
  <2>2. Extends(ledger'[d], ledger[d], e) /\ \A u \in Drivers : u # d => ledger'[u] = ledger[u]
    BY <1>0, <2>1, AppendProperties DEF Extends
  <2>3. e.type = "recharge" /\ e.ref = r
    OBVIOUS
  <2> HIDE DEF e
  <2>4. Deposits(r)' = Deposits(r) \cup {Len(ledger[d]) + 1}
    BY <2>3, <2>2, RowsAppended DEF Deposits
  <2>5. \A u \in Recharges : u # r => Deposits(u)' = Deposits(u)
    BY <1>1, <2>3, <2>2, RowsAppended DEF Deposits
  <2>6. \A s \in Sessions : Debits(s)' = Debits(s)
    BY <1>1, <2>3, <2>2, RowsAppended DEF Debits
  <2>7. /\ ~Credited(r) /\ Credited(r)'
        /\ \A u \in Recharges : u # r => (Credited(u)' <=> Credited(u))
        /\ pay' = pay
    BY <1>0, <1>4 DEF Credits, Credited
  <2>8. Deposits(r)' = {Len(ledger[d]) + 1}
    BY <2>4, <2>7 DEF RowsInv
  <2> QED
    BY <2>5, <2>6, <2>7, <2>8 DEF RowsInv
<1>5. ASSUME NEW r \in Recharges, Reverses(r) PROVE RowsInv'
  <2> DEFINE d == WalletOf[r]
             e == [type |-> "refund", ref |-> r, before |-> bal[d], after |-> bal[d] - Amount[r]]
  <2>1. d \in Drivers /\ ledger' = [ledger EXCEPT ![d] = Append(@, e)]
    BY <1>5, <1>1 DEF Reverses, atomicDebit
  <2>2. Extends(ledger'[d], ledger[d], e) /\ \A u \in Drivers : u # d => ledger'[u] = ledger[u]
    BY <1>0, <2>1, AppendProperties DEF Extends
  <2>3. e.type = "refund"
    OBVIOUS
  <2> HIDE DEF e
  <2>4. /\ \A u \in Recharges : Deposits(u)' = Deposits(u)
        /\ \A s \in Sessions : Debits(s)' = Debits(s)
    BY <1>1, <2>3, <2>2, RowsAppended DEF Debits, Deposits
  <2>5. (\A u \in Recharges : Credited(u)' <=> Credited(u)) /\ pay' = pay
    BY <1>5 DEF Reverses
  <2> QED
    BY <2>4, <2>5 DEF RowsInv
<1> QED
  BY <1>2, <1>3, <1>4, <1>5, Movements

\* In every reachable state there is one row for each payment that moved money.
LEMMA RowsInvariance == Spec => []RowsInv
<1>1. Init => RowsInv
  <2> SUFFICES ASSUME Init PROVE RowsInv
    OBVIOUS
  <2>1. \A d \in Drivers : ledger[d] = <<>>
    BY DEF Init
  <2>2. \A d \in Drivers : \A type, x : RowsOf(ledger[d], type, x) = {}
    BY <2>1 DEF RowsOf
  <2>3. \A x \in Sessions \cup Recharges : WalletOf[x] \in Drivers
    BY MoneyAssumption DEF MoneyAssumption
  <2>4. /\ \A s \in Sessions : pay[s] = "none" /\ Debits(s) = {}
        /\ \A r \in Recharges : ~Credited(r) /\ Deposits(r) = {}
    BY <2>2, <2>3 DEF Init, Debits, Deposits, Credited
  <2> QED BY <2>4 DEF RowsInv
<1>2. TypeInv /\ RowsInv /\ [Next]_vars => RowsInv'
  BY RowsStep
<1> QED
  BY <1>1, <1>2, Requests, PTL DEF Spec

\* However many of the inline attempt, the sweep and a top-up race for it, and
\* whatever is aborted or crashes, the ledger holds one debit of a session
\* whose payment is paid and none of any other (the claim in settleSession).
THEOREM CollectedOnce == Spec => []SettledOnce
<1>1. RowsInv => SettledOnce
  <2> SUFFICES ASSUME RowsInv, NEW s \in Sessions
               PROVE  Cardinality(Debits(s)) = IF pay[s] = "paid" THEN 1 ELSE 0
    BY DEF SettledOnce, Debits, Rows, RowsOf
  <2>1. CASE pay[s] = "paid"
    <3>1. PICK i : Debits(s) = {i}
      BY <2>1 DEF RowsInv
    <3>2. Cardinality({i}) = 1
      BY FS_Singleton
    <3> QED BY <2>1, <3>1, <3>2
  <2>2. CASE pay[s] # "paid"
    BY <2>2, FS_EmptySet DEF RowsInv
  <2> QED BY <2>1, <2>2
<1> QED
  BY <1>1, RowsInvariance, PTL

\* However often the browser and the provider confirm a recharge, it is in the
\* ledger once, exactly when it was claimed (verifyAndCredit's filter).
THEOREM RechargedOnce == Spec => []CreditedOnce
<1>1. RowsInv => CreditedOnce
  <2> SUFFICES ASSUME RowsInv, NEW r \in Recharges
               PROVE  Cardinality(Deposits(r)) = IF rech[r] \in {"paid", "refunded"} THEN 1 ELSE 0
    BY DEF CreditedOnce, Deposits, Rows, RowsOf
  <2>1. CASE Credited(r)
    <3>1. PICK i : Deposits(r) = {i}
      BY <2>1 DEF RowsInv
    <3>2. Cardinality({i}) = 1
      BY FS_Singleton
    <3> QED BY <2>1, <3>1, <3>2 DEF Credited
  <2>2. CASE ~Credited(r)
    BY <2>2, FS_EmptySet DEF RowsInv, Credited
  <2> QED BY <2>1, <2>2
<1> QED
  BY <1>1, RowsInvariance, PTL

-----------------------------------------------------------------------------
(* The session's paymentStatus *)

\* Until a commit is aborted, every step keeps paymentStatus in agreement with
\* the payment: only a retried callback skips the session's write.
LEMMA ProjectionStep ==
  ASSUME aborts = 0, TypeInv, ProjectionAgrees, [Next]_vars
  PROVE  ProjectionAgrees'
<1> SUFFICES ASSUME NEW s \in Sessions, Amount[s] > 0
             PROVE  s \notin unpaid' <=> pay'[s] = "paid"
  BY DEF ProjectionAgrees
<1>0. /\ s \notin unpaid <=> pay[s] = "paid"
      /\ pay \in [Sessions -> PaymentStatuses]
  BY DEF ProjectionAgrees, TypeInv, TypeOK
<1>1. ASSUME NEW p \in Procs, collect(p)
      PROVE  s \notin unpaid' <=> pay'[s] = "paid"
  <2>1. ~op[p].again
    <3>1. ~(aborts > 0)
      OBVIOUS
    <3> QED BY <3>1 DEF TypeInv, AbortsInv
  <2>2. op[p].sid \in Sessions
    BY <1>1 DEF TypeInv, RequestsInv, Held, collect
  <2>3. CASE Covers(op[p].sid) /\ Claimable(op[p].sid)
    <3>1. unpaid' = unpaid \ {op[p].sid} /\ pay' = [pay EXCEPT ![op[p].sid] = "paid"]
      BY <1>1, <2>1, <2>3 DEF collect, Projected
    <3> QED BY <1>0, <2>2, <3>1
  <2>4. CASE ~(Covers(op[p].sid) /\ Claimable(op[p].sid))
    BY <1>0, <1>1, <2>4 DEF collect
  <2> QED BY <2>3, <2>4
<1>2. ASSUME NEW p \in Procs, createPayment(p)
      PROVE  s \notin unpaid' <=> pay'[s] = "paid"
  <2>1. op[p].sid \in Sessions
    BY <1>2 DEF TypeInv, RequestsInv, Held, createPayment
  <2> QED BY <1>0, <1>2, <2>1 DEF createPayment
<1>3. ASSUME NEW u \in Sessions, price(u)
      PROVE  s \notin unpaid' <=> pay'[s] = "paid"
  <2>1. Amount[u] = 0 => s # u
    BY MoneyAssumption DEF MoneyAssumption
  <2> QED BY <1>0, <1>3, <2>1 DEF price
<1>4. \/ \E p \in Procs : collect(p) \/ createPayment(p)
      \/ \E u \in Sessions : price(u)
      \/ UNCHANGED <<unpaid, pay>>
  <2>1. ASSUME NEW p \in Procs, RequestStep(p) \/ commitAborts(p)
        PROVE  collect(p) \/ createPayment(p) \/ UNCHANGED <<unpaid, pay>>
    BY <2>1 DEF RequestStep, commitAborts, nextDebt, settleSession, findPayment, defer,
                saveOrder, credit, settleOutstandingForUser, refund, store
  <2>2. ASSUME NEW p \in Slots, Arrival(p)
        PROVE  UNCHANGED <<unpaid, pay>>
    BY <2>2 DEF Arrival, settleInline, createRechargeOrder, verifyAndCredit, refundRecharge, store
  <2>3. CASE \/ SweepStart \/ crash \/ UNCHANGED vars
             \/ \E u \in Sessions : backoffElapses(u)
             \/ \E r \in Recharges : capture(r)
    BY <2>3 DEF SweepStart, sweepOrphans, sweepDue, crash, backoffElapses, capture, store, vars
  <2> QED BY <2>1, <2>2, <2>3 DEF Next
<1> QED
  BY <1>0, <1>1, <1>2, <1>3, <1>4

\* No step takes back an aborted commit.
LEMMA AbortsGrow ==
  ASSUME TypeInv, [Next]_vars, aborts' = 0
  PROVE  aborts = 0
<1>0. aborts \in Nat
  BY DEF TypeInv, TypeOK
<1>1. ASSUME NEW p \in Procs, RequestStep(p)
      PROVE  aborts' = aborts
  BY <1>1 DEF RequestStep, nextDebt, settleSession, findPayment, createPayment, collect, defer,
              saveOrder, credit, settleOutstandingForUser, refund
<1>2. ASSUME NEW p \in Procs, commitAborts(p)
      PROVE  aborts' = aborts + 1
  BY <1>2 DEF commitAborts
<1>3. ASSUME NEW p \in Slots, Arrival(p)
      PROVE  aborts' = aborts
  BY <1>3 DEF Arrival, settleInline, createRechargeOrder, verifyAndCredit, refundRecharge
<1>4. CASE \/ SweepStart \/ crash \/ UNCHANGED vars
           \/ \E u \in Sessions : price(u) \/ backoffElapses(u)
           \/ \E r \in Recharges : capture(r)
  BY <1>4 DEF SweepStart, sweepOrphans, sweepDue, crash, price, backoffElapses, capture, vars
<1> QED
  BY <1>0, <1>1, <1>2, <1>3, <1>4 DEF Next

\* As long as no commit was aborted after its callback ran, a session with
\* something to pay is marked paid exactly when its payment is, whatever
\* inline attempt, sweep, top-up, reversal or crash came between.  The
\* condition is needed: ProjectionAgrees alone fails after one aborted commit.
THEOREM ProjectionFaithful == Spec => []ProjectionAgreesUntilAbort
<1>1. Init => ProjectionAgreesUntilAbort
  BY DEF Init, ProjectionAgrees, ProjectionAgreesUntilAbort
<1>2. TypeInv /\ ProjectionAgreesUntilAbort /\ [Next]_vars => ProjectionAgreesUntilAbort'
  BY ProjectionStep, AbortsGrow DEF ProjectionAgreesUntilAbort
<1> QED
  BY <1>1, <1>2, Requests, PTL DEF Spec
=============================================================================
