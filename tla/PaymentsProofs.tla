--------------------------- MODULE PaymentsProofs ---------------------------
(***************************************************************************)
(* Proofs about Payments: its type invariant, that a payment buys exactly  *)
(* one period, that the ledger agrees with the gateway, that what is       *)
(* settled stays settled, that no callback leaves a payment half failed,   *)
(* and that Payments implements PaidPeriods.                               *)
(***************************************************************************)
EXTENDS Payments, TLAPS

Opening == {"initiate", "mark_txn"}
Busy == {"wait", "locked", "activate"}
Critical == {"locked", "activate"}

\* A process between its FOR UPDATE and its COMMIT holds the payment's lock.
HolderInv == \A w \in Worker : pc[w] \in Critical => lock[target[w]] = w

\* A result is applied to the payment whose order the transaction was for.
EventInv ==
  \A w \in Worker : pc[w] \in Busy =>
    /\ target[w] \in Payment /\ event[w] \in TxnId
    /\ Decided(event[w]) /\ attempt[event[w]].order = target[w]

\* The customer can pay only after the initiation is over.
OpenInv ==
  /\ \A w \in Worker : pc[w] \in Opening =>
       target[w] \in Created /\ ~ reference[target[w]]
  /\ \A v, w \in Worker :
       pc[v] \in Opening /\ pc[w] \in Opening /\ target[v] = target[w] => v = w
  /\ \A t \in TxnId : attempt[t].state # "none" /\ attempt[t].order # None =>
       reference[attempt[t].order]
  /\ \A s \in Payment : reference[s] => s \in Created

RowInv ==
  /\ \A r \in Rows : txns[r].sub \in Created
  /\ \A q, r \in Rows : txns[q].sub = txns[r].sub => txns[q].amount = txns[r].amount
  /\ \A r \in Rows : txns[r].state = "completed" => txns[r].tid # None

\* What activate_subscription is called for stays true until the COMMIT.
GrantInv ==
  \A w \in Worker : pc[w] = "activate" =>
    /\ status[target[w]] # "completed"
    /\ Succeeded(event[w])
    /\ AmountDue(target[w], attempt[event[w]].amount)
    /\ ~ Settled(event[w], target[w])

Workers == HolderInv /\ EventInv /\ OpenInv /\ GrantInv
Records == RowInv /\ LedgerAgrees /\ TransactionIdsUnique /\ OnePeriodPerPayment

IInv == TypeOK /\ Workers /\ Records

-----------------------------------------------------------------------------
(* Typing.                                                                 *)

\* Rows and attempts change their state and nothing else.
LEMMA RowWithState ==
  ASSUME TypeOK, NEW r \in Rows, NEW state \in {"pending", "completed", "failed"}
  PROVE  /\ [txns[r] EXCEPT !.state = state] \in Row
         /\ [txns[r] EXCEPT !.state = state].state = state
         /\ [txns[r] EXCEPT !.state = state].sub = txns[r].sub
         /\ [txns[r] EXCEPT !.state = state].tid = txns[r].tid
         /\ [txns[r] EXCEPT !.state = state].amount = txns[r].amount
<1>1. r \in TxnPk /\ txns[r].state # "absent"
  BY DEF Rows
<1>2. txns[r] \in Row
  BY <1>1 DEF TypeOK, Absent
<1>3. QED
  BY <1>2 DEF Row

\* The same for a transaction of the gateway.
LEMMA AttemptWithState ==
  ASSUME TypeOK, NEW t \in TxnId, attempt[t].state # "none",
         NEW state \in {"open", "success", "failed", "reversed"}
  PROVE  /\ [attempt[t] EXCEPT !.state = state] \in Attempt
         /\ [attempt[t] EXCEPT !.state = state].state = state
         /\ [attempt[t] EXCEPT !.state = state].order = attempt[t].order
         /\ [attempt[t] EXCEPT !.state = state].amount = attempt[t].amount
<1>1. attempt[t] \in Attempt
  BY DEF TypeOK, NoAttempt
<1>2. QED
  BY <1>1 DEF Attempt

\* Every step keeps the types.
LEMMA TypedStep == TypeOK /\ EventInv /\ OpenInv /\ [Next]_vars => TypeOK'
<1> SUFFICES ASSUME TypeOK, EventInv, OpenInv, [Next]_vars PROVE TypeOK'
  OBVIOUS
<1> USE NoneIsNothing DEF TypeOK, Worker, Goto, table, local
<1>1. ASSUME NEW t \in TxnId, NEW order \in Payment \cup {None}, NEW a \in Amount,
             NewAttempt(t, order, a)
      PROVE  TypeOK'
  BY <1>1 DEF NewAttempt, Attempt
<1>2. ASSUME NEW t \in TxnId, NEW result \in {"success", "failed"}, Decide(t, result)
      PROVE  TypeOK'
  <2>1. [attempt[t] EXCEPT !.state = result] \in Attempt
    BY <1>2, AttemptWithState DEF Decide
  <2>2. QED
    BY <1>2, <2>1 DEF Decide
<1>3. ASSUME NEW t \in TxnId, Reverse(t) PROVE TypeOK'
  <2>1. [attempt[t] EXCEPT !.state = "reversed"] \in Attempt
    BY <1>3, AttemptWithState DEF Reverse
  <2>2. QED
    BY <1>3, <2>1 DEF Reverse
<1>4. ASSUME NEW w \in Worker, NEW s \in Payment, NEW r \in TxnPk, NEW a \in Amount,
             Initiate(w, s, r, a)
      PROVE  TypeOK'
  BY <1>4 DEF Initiate, NewTxn, Row
<1>5. ASSUME NEW w \in Worker, GatewayAccepts(w) PROVE TypeOK'
  BY <1>5 DEF GatewayAccepts
<1>6. ASSUME NEW w \in Worker, GatewayRefuses(w) PROVE TypeOK'
  BY <1>6 DEF GatewayRefuses
<1>7. ASSUME NEW w \in Worker, MarkTxnFailed(w) PROVE TypeOK'
  <2>1. \A r \in RowsOf(target[w]) : [txns[r] EXCEPT !.state = "failed"] \in Row
    BY RowWithState DEF RowsOf
  <2>2. txns' \in [TxnPk -> Row \cup {Absent}]
    BY <1>7, <2>1 DEF MarkTxnFailed
  <2>3. QED
    BY <1>7, <2>2 DEF MarkTxnFailed
<1>8. ASSUME NEW w \in Worker, NEW t \in TxnId, NEW s \in Payment, Deliver(w, t, s)
      PROVE  TypeOK'
  BY <1>8 DEF Deliver
<1>9. ASSUME NEW w \in Worker, LockPayment(w) PROVE TypeOK'
  BY <1>9 DEF LockPayment
<1>10. ASSUME NEW w \in Worker, NEW r \in TxnPk, Discard(w, r) PROVE TypeOK'
  BY <1>10 DEF Discard, Finish, Unlocked
<1>11. ASSUME NEW w \in Worker, NEW r \in TxnPk, NEW state \in {"completed", "failed"},
              pc[w] \in Critical, WriteResult(w, r, state)
       PROVE  txns' \in [TxnPk -> Row \cup {Absent}] /\ target[w] \in Payment
  BY <1>11 DEF WriteResult, NewTxn, Row, EventInv, Critical, Busy
<1>12. ASSUME NEW w \in Worker, NEW r \in TxnPk, RecordFailure(w, r) PROVE TypeOK'
  <2>1. txns' \in [TxnPk -> Row \cup {Absent}] /\ target[w] \in Payment
    BY <1>11, <1>12 DEF RecordFailure, Critical
  <2>2. QED
    BY <1>12, <2>1 DEF RecordFailure, Finish, Unlocked, StatusAfterFailure
<1>13. ASSUME NEW w \in Worker, NEW r \in TxnPk, BeginGrant(w, r) PROVE TypeOK'
  BY <1>13 DEF BeginGrant
<1>14. ASSUME NEW w \in Worker, NEW r \in TxnPk, CommitGrant(w, r) PROVE TypeOK'
  <2>1. txns' \in [TxnPk -> Row \cup {Absent}] /\ target[w] \in Payment
    BY <1>11, <1>14 DEF CommitGrant, Completed, Critical
  <2>2. grants' \in [Payment -> Nat]
    BY <1>14, <2>1 DEF CommitGrant
  <2>3. QED
    BY <1>14, <2>1, <2>2 DEF CommitGrant, Completed, Finish, Unlocked
<1>15. ASSUME NEW w \in Worker, RollBack(w) PROVE TypeOK'
  BY <1>15 DEF RollBack, Finish, Unlocked
<1>16. ASSUME NEW s \in Payment, Age(s) PROVE TypeOK'
  BY <1>16 DEF Age
<1>17. ASSUME NEW w \in Worker, BeginReconcile(w) PROVE TypeOK'
  BY <1>17 DEF BeginReconcile
<1>18. ASSUME NEW w \in Worker, NEW s \in Payment, NEW t \in TxnId, AskFinal(w, s, t)
       PROVE  TypeOK'
  BY <1>18 DEF AskFinal
<1>19. ASSUME NEW w \in Worker, NEW s \in Payment, Leave(w, s) PROVE TypeOK'
  BY <1>19 DEF Leave
<1>20. ASSUME NEW w \in Worker, Crash(w) PROVE TypeOK'
  BY <1>20 DEF Crash, Unlocked
<1>21. CASE UNCHANGED vars
  BY <1>21 DEF vars
<1>22. CASE GatewayNext
  BY <1>22, <1>1, <1>2, <1>3 DEF GatewayNext
<1>23. ASSUME NEW w \in Worker, InitiateStep(w) PROVE TypeOK'
  BY <1>23, <1>4, <1>5, <1>6, <1>7 DEF InitiateStep
<1>24. ASSUME NEW w \in Worker, ProcessStep(w) PROVE TypeOK'
  BY <1>24, <1>9, <1>10, <1>12, <1>13, <1>14, <1>15 DEF ProcessStep
<1>25. ASSUME NEW w \in Worker, ReconcileStep(w) PROVE TypeOK'
  BY <1>25, <1>17, <1>18, <1>19 DEF ReconcileStep, AskNotFinal, AskFails
<1>26. QED
  BY <1>8, <1>16, <1>20, <1>21, <1>22, <1>23, <1>24, <1>25 DEF Next

-----------------------------------------------------------------------------
(* The gateway, and who works on what.                                     *)

\* A transaction of the gateway keeps its order, its amount and its result.
LEMMA AttemptsKept ==
  ASSUME TypeOK, GatewayNext \/ UNCHANGED attempt,
         NEW t \in TxnId, attempt[t].state # "none"
  PROVE  /\ attempt'[t].state # "none"
         /\ attempt'[t].order = attempt[t].order
         /\ attempt'[t].amount = attempt[t].amount
         /\ Succeeded(t) => Succeeded(t)'
         /\ attempt[t].state = "failed" => attempt'[t].state = "failed"
         /\ Decided(t) => Decided(t)'
<1>1. ASSUME NEW u \in TxnId, NEW order \in Payment \cup {None}, NEW a \in Amount,
             NewAttempt(u, order, a)
      PROVE  attempt'[t] = attempt[t]
  <2>1. u # t
    BY <1>1 DEF NewAttempt, NextKey
  <2>2. QED
    BY <1>1, <2>1 DEF NewAttempt
<1>2. ASSUME NEW u \in TxnId, NEW result \in {"success", "failed"}, Decide(u, result)
      PROVE  IF u = t THEN /\ attempt[t].state = "open"
                           /\ attempt'[t].state = result
                           /\ attempt'[t].order = attempt[t].order
                           /\ attempt'[t].amount = attempt[t].amount
                      ELSE attempt'[t] = attempt[t]
  <2>1. CASE u = t
    <3>1. attempt'[t] = [attempt[t] EXCEPT !.state = result]
      BY <1>2, <2>1, Zenon DEF Decide, TypeOK
    <3>2. attempt[t].state = "open"
      BY <1>2, <2>1 DEF Decide
    <3>3. /\ [attempt[t] EXCEPT !.state = result].state = result
          /\ [attempt[t] EXCEPT !.state = result].order = attempt[t].order
          /\ [attempt[t] EXCEPT !.state = result].amount = attempt[t].amount
      BY <1>2, AttemptWithState
    <3>4. QED
      BY <2>1, <3>1, <3>2, <3>3, Zenon
  <2>2. CASE u # t
    BY <1>2, <2>2, Zenon DEF Decide, TypeOK
  <2>3. QED
    BY <2>1, <2>2
<1>3. ASSUME NEW u \in TxnId, Reverse(u)
      PROVE  IF u = t THEN /\ attempt[t].state = "success"
                           /\ attempt'[t].state = "reversed"
                           /\ attempt'[t].order = attempt[t].order
                           /\ attempt'[t].amount = attempt[t].amount
                      ELSE attempt'[t] = attempt[t]
  <2>1. CASE u = t
    <3>1. attempt'[t] = [attempt[t] EXCEPT !.state = "reversed"]
      BY <1>3, <2>1, Zenon DEF Reverse, TypeOK
    <3>2. attempt[t].state = "success"
      BY <1>3, <2>1 DEF Reverse
    <3>3. /\ [attempt[t] EXCEPT !.state = "reversed"].state = "reversed"
          /\ [attempt[t] EXCEPT !.state = "reversed"].order = attempt[t].order
          /\ [attempt[t] EXCEPT !.state = "reversed"].amount = attempt[t].amount
      BY <1>3, AttemptWithState
    <3>4. QED
      BY <2>1, <3>1, <3>2, <3>3, Zenon
  <2>2. CASE u # t
    BY <1>3, <2>2, Zenon DEF Reverse, TypeOK
  <2>3. QED
    BY <2>1, <2>2
<1>4. QED
  BY <1>1, <1>2, <1>3 DEF GatewayNext, Succeeded, Decided

\* Nobody but the gateway changes its transactions.
LEMMA OnlyGateway == [Next]_vars => GatewayNext \/ UNCHANGED attempt
BY DEF Next, vars, GatewayNext, InitiateStep, Initiate, GatewayAccepts, GatewayRefuses,
       MarkTxnFailed, Deliver, ProcessStep, LockPayment, Discard, RecordFailure,
       BeginGrant, CommitGrant, RollBack, ReconcileStep, BeginReconcile, AskFinal,
       AskNotFinal, AskFails, Leave, Crash, Age

\* The gateway changes nothing else.
LEMMA GatewayFrame == GatewayNext => UNCHANGED <<table, lock, local>>
BY DEF GatewayNext, NewAttempt, Decide, Reverse

\* A result is resolved to the payment whose order the transaction was for.
LEMMA ResolvedOrder ==
  ASSUME LedgerAgrees, NEW t \in TxnId, NEW s \in Payment, Resolve(t, s), t # None
  PROVE  s = attempt[t].order
BY DEF Resolve, RowsFor, LedgerAgrees

\* Locks keep processes apart: two that are past their FOR UPDATE work on
\* different payments and apply different transactions.
LEMMA Apart ==
  ASSUME TypeOK, HolderInv, EventInv, NEW v \in Worker, NEW w \in Worker, v # w,
         pc[v] \in Critical, pc[w] \in Critical
  PROVE  target[v] # target[w] /\ event[v] # event[w]
BY DEF HolderInv, EventInv, Critical, Busy

\* Leaving a transaction releases one's own lock only.
LEMMA UnlockedByOthers ==
  ASSUME NEW w \in Worker, NEW s \in Payment, lock[s] # w, lock' = Unlocked(w)
  PROVE  lock'[s] = lock[s]
BY DEF Unlocked

\* What a step can do to one process.
LEMMA OwnStep ==
  ASSUME TypeOK, [Next]_vars, NEW v \in Worker
  PROVE  \/ pc'[v] = pc[v] /\ target'[v] = target[v] /\ event'[v] = event[v]
         \/ pc'[v] \in {"idle", "batch"}
         \/ \E t \in TxnId, s \in Payment : Deliver(v, t, s) \/ AskFinal(v, s, t)
         \/ LockPayment(v)
         \/ \E r \in TxnPk : BeginGrant(v, r)
         \/ \E s \in Payment, r \in TxnPk, a \in Amount : Initiate(v, s, r, a)
         \/ GatewayRefuses(v)
<1> DEFINE Same == pc'[v] = pc[v] /\ target'[v] = target[v] /\ event'[v] = event[v]
           Out == pc'[v] \in {"idle", "batch"}
<1> USE DEF TypeOK, Goto, Finish
<1>1. CASE GatewayNext \/ UNCHANGED vars \/ \E s \in Payment : Age(s)
  BY <1>1, GatewayFrame DEF Age, vars, local
<1>2. ASSUME NEW w \in Worker, w # v,
             \/ InitiateStep(w) \/ ProcessStep(w) \/ ReconcileStep(w) \/ Crash(w)
             \/ \E t \in TxnId, s \in Payment : Deliver(w, t, s)
      PROVE  Same
  <2>1. CASE InitiateStep(w) \/ Crash(w)
    BY <1>2, <2>1 DEF InitiateStep, Initiate, GatewayAccepts, GatewayRefuses, MarkTxnFailed, Crash
  <2>2. CASE ProcessStep(w)
    BY <1>2, <2>2 DEF ProcessStep, LockPayment, Discard, RecordFailure, BeginGrant,
                      CommitGrant, RollBack
  <2>3. CASE ReconcileStep(w)
    BY <1>2, <2>3 DEF ReconcileStep, BeginReconcile, AskFinal, AskNotFinal, AskFails, Leave
  <2>4. CASE \E t \in TxnId, s \in Payment : Deliver(w, t, s)
    BY <1>2, <2>4 DEF Deliver
  <2>5. QED
    BY <1>2, <2>1, <2>2, <2>3, <2>4
<1>3. GatewayAccepts(v) \/ MarkTxnFailed(v) \/ Crash(v) \/ BeginReconcile(v) \/ RollBack(v) => Out
  BY DEF GatewayAccepts, MarkTxnFailed, Crash, BeginReconcile, RollBack
<1>4. ASSUME NEW s \in Payment, AskNotFinal(v, s) \/ AskFails(v, s) PROVE Out
  BY <1>4 DEF AskNotFinal, AskFails, Leave
<1>5. ASSUME NEW r \in TxnPk, Discard(v, r) \/ RecordFailure(v, r) \/ CommitGrant(v, r) PROVE Out
  BY <1>5 DEF Discard, RecordFailure, CommitGrant
<1>6. QED
  BY <1>1, <1>2, <1>3, <1>4, <1>5 DEF Next, InitiateStep, ProcessStep, ReconcileStep

\* A lock goes only when its holder leaves its transaction.
LEMMA LockKept ==
  ASSUME TypeOK, [Next]_vars, NEW v \in Worker, NEW s \in Payment, lock[s] = v
  PROVE  lock'[s] = v \/ pc'[v] \in {"idle", "batch"}
<1> USE NoneIsNothing DEF TypeOK, Goto, Finish, Unlocked
<1>1. CASE GatewayNext \/ UNCHANGED vars \/ \E q \in Payment : Age(q)
  BY <1>1, GatewayFrame DEF Age, vars
<1>2. ASSUME NEW w \in Worker, LockPayment(w) PROVE lock'[s] = v
  BY <1>2 DEF LockPayment, Free
<1>3. ASSUME NEW w \in Worker, lock' = Unlocked(w), w # v PROVE lock'[s] = v
  BY <1>3
<1>4. ASSUME NEW w \in Worker, InitiateStep(w) PROVE lock'[s] = v
  BY <1>4 DEF InitiateStep, Initiate, GatewayAccepts, GatewayRefuses, MarkTxnFailed
<1>5. ASSUME NEW w \in Worker, ReconcileStep(w) PROVE lock'[s] = v
  BY <1>5 DEF ReconcileStep, BeginReconcile, AskFinal, AskNotFinal, AskFails, Leave
<1>6. ASSUME NEW w \in Worker, NEW t \in TxnId, NEW q \in Payment, Deliver(w, t, q)
      PROVE  lock'[s] = v
  BY <1>6 DEF Deliver
<1>7. ASSUME NEW w \in Worker, NEW r \in TxnPk, BeginGrant(w, r) PROVE lock'[s] = v
  BY <1>7 DEF BeginGrant
<1>8. ASSUME NEW w \in Worker, NEW r \in TxnPk,
             \/ Discard(w, r) \/ RecordFailure(w, r) \/ CommitGrant(w, r)
             \/ RollBack(w) \/ Crash(w)
      PROVE  lock'[s] = v \/ pc'[v] \in {"idle", "batch"}
  <2>1. lock' = Unlocked(w) /\ pc'[w] \in {"idle", "batch"}
    BY <1>8 DEF Discard, RecordFailure, CommitGrant, RollBack, Crash
  <2>2. QED
    BY <1>3, <2>1
<1>9. ASSUME NEW w \in Worker, RollBack(w) \/ Crash(w)
       PROVE  lock'[s] = v \/ pc'[v] \in {"idle", "batch"}
  <2>1. lock' = Unlocked(w) /\ pc'[w] \in {"idle", "batch"}
    BY <1>9 DEF RollBack, Crash
  <2>2. QED
    BY <1>3, <2>1
<1>10. QED
  BY <1>1, <1>2, <1>4, <1>5, <1>6, <1>7, <1>8, <1>9 DEF Next, ProcessStep

\* The lock, the event and the target of every process fit its program counter.
LEMMA WorkersStep == IInv /\ [Next]_vars => HolderInv' /\ EventInv'
<1> SUFFICES ASSUME IInv, [Next]_vars, NEW v \in Worker
             PROVE  /\ pc'[v] \in Critical => lock'[target'[v]] = v
                    /\ pc'[v] \in Busy =>
                         /\ target'[v] \in Payment /\ event'[v] \in TxnId
                         /\ Decided(event[v])' /\ attempt'[event'[v]].order = target'[v]
  BY DEF HolderInv, EventInv
<1> USE DEF Critical, Busy
<1>1. TypeOK /\ HolderInv /\ EventInv /\ LedgerAgrees
  BY DEF IInv, Workers, Records
<1>2. ASSUME NEW t \in TxnId, Decided(t)
      PROVE  Decided(t)' /\ attempt'[t].order = attempt[t].order
  BY <1>1, <1>2, OnlyGateway, AttemptsKept DEF Decided, Succeeded
<1>3. ASSUME pc'[v] = pc[v] \/ LockPayment(v) \/ \E r \in TxnPk : BeginGrant(v, r),
             pc[v] \in Busy, target'[v] = target[v] /\ event'[v] = event[v]
      PROVE  /\ target'[v] \in Payment /\ event'[v] \in TxnId
             /\ Decided(event[v])' /\ attempt'[event'[v]].order = target'[v]
  BY <1>1, <1>2, <1>3 DEF EventInv, Decided, Succeeded
<1>4. CASE pc'[v] = pc[v] /\ target'[v] = target[v] /\ event'[v] = event[v]
  <2>1. pc[v] \in Critical => lock'[target[v]] = v
    BY <1>1, <1>4, LockKept DEF HolderInv, EventInv
  <2>2. QED
    BY <1>3, <1>4, <2>1
<1>5. ASSUME NEW t \in TxnId, NEW s \in Payment, Deliver(v, t, s) \/ AskFinal(v, s, t)
      PROVE  pc'[v] = "wait" /\ target'[v] \in Payment /\ event'[v] = t
             /\ Decided(t) /\ attempt[t].order = target'[v]
  <2>1. CASE Deliver(v, t, s)
    BY <1>1, <2>1, ResolvedOrder, NoneIsNothing DEF Deliver, TypeOK, Goto
  <2>2. CASE AskFinal(v, s, t)
    BY <1>1, <2>2, ResolvedOrder, NoneIsNothing
       DEF AskFinal, TypeOK, Goto, Decided, Succeeded
  <2>3. QED
    BY <1>5, <2>1, <2>2
<1>6. CASE LockPayment(v)
  <2>1. /\ pc[v] = "wait" /\ target'[v] = target[v] /\ event'[v] = event[v]
        /\ lock'[target[v]] = v
    BY <1>1, <1>6 DEF LockPayment, EventInv, TypeOK
  <2>2. QED
    BY <1>3, <1>6, <2>1
<1>7. ASSUME NEW r \in TxnPk, BeginGrant(v, r)
      PROVE  /\ pc[v] = "locked" /\ target'[v] = target[v] /\ event'[v] = event[v]
             /\ lock'[target[v]] = v
  BY <1>1, <1>7 DEF BeginGrant, HolderInv
<1>8. CASE \/ \E s \in Payment, r \in TxnPk, a \in Amount : Initiate(v, s, r, a)
           \/ GatewayRefuses(v)
  BY <1>1, <1>8 DEF Initiate, GatewayRefuses, Goto, TypeOK
<1>9. CASE \E t \in TxnId, s \in Payment : Deliver(v, t, s) \/ AskFinal(v, s, t)
  BY <1>2, <1>5, <1>9 DEF Decided, Succeeded
<1>10. CASE \E r \in TxnPk : BeginGrant(v, r)
  BY <1>3, <1>7, <1>10
<1>11. QED
  BY <1>1, <1>4, <1>6, <1>8, <1>9, <1>10, OwnStep

\* Who changes a payment's reference, and that payments and references stay.
LEMMA ReferenceKept ==
  ASSUME IInv, [Next]_vars, NEW s \in Payment
  PROVE  /\ reference[s] => reference'[s]
         /\ reference'[s] => reference[s] \/ \E w \in Worker : GatewayAccepts(w) /\ target[w] = s
         /\ s \in Created => s \in Created'
<1>1. TypeOK /\ EventInv /\ OpenInv
  BY DEF IInv, Workers
<1>2. ASSUME UNCHANGED <<status, reference>>
      PROVE  /\ reference[s] = reference'[s]
             /\ s \in Created => s \in Created'
  BY <1>2 DEF Created
<1>3. GatewayNext \/ UNCHANGED vars \/ (\E q \in Payment : Age(q)) => UNCHANGED <<status, reference>>
  BY GatewayFrame DEF Age, vars, table
<1>4. ASSUME NEW w \in Worker, NEW q \in Payment, NEW r \in TxnPk, NEW a \in Amount,
             Initiate(w, q, r, a)
      PROVE  UNCHANGED reference /\ (s \in Created => s \in Created')
  BY <1>1, <1>4 DEF Initiate, Created, TypeOK
<1>5. ASSUME NEW w \in Worker, GatewayAccepts(w)
      PROVE  /\ reference[s] => reference'[s]
             /\ reference'[s] => reference[s] \/ target[w] = s
             /\ s \in Created => s \in Created'
  BY <1>1, <1>5 DEF GatewayAccepts, Created, TypeOK
<1>6. ASSUME NEW w \in Worker, GatewayRefuses(w)
      PROVE  UNCHANGED reference /\ (s \in Created => s \in Created')
  BY <1>1, <1>6 DEF GatewayRefuses, Created, TypeOK
<1>7. ASSUME NEW w \in Worker, NEW r \in TxnPk, RecordFailure(w, r) \/ CommitGrant(w, r)
      PROVE  UNCHANGED reference /\ (s \in Created => s \in Created')
  BY <1>1, <1>7 DEF RecordFailure, CommitGrant, Completed, StatusAfterFailure, Created, TypeOK
<1>8. ASSUME NEW w \in Worker,
             \/ MarkTxnFailed(w) \/ LockPayment(w) \/ RollBack(w) \/ Crash(w)
             \/ ReconcileStep(w)
             \/ \E r \in TxnPk : Discard(w, r) \/ BeginGrant(w, r)
             \/ \E t \in TxnId, q \in Payment : Deliver(w, t, q)
      PROVE  UNCHANGED <<status, reference>>
  BY <1>8 DEF MarkTxnFailed, LockPayment, RollBack, Crash, ReconcileStep, Discard, BeginGrant,
              Deliver, BeginReconcile, AskFinal, AskNotFinal, AskFails, Leave, table
<1>9. QED
  BY <1>2, <1>3, <1>4, <1>5, <1>6, <1>7, <1>8 DEF Next, InitiateStep, ProcessStep

\* An attempt is made only on the order of a payment whose page the customer has.
LEMMA AttemptNeedsReference ==
  ASSUME IInv, [Next]_vars, NEW t \in TxnId,
         attempt'[t].state # "none", attempt'[t].order # None
  PROVE  reference'[attempt'[t].order]
<1>1. TypeOK /\ OpenInv
  BY DEF IInv, Workers
<1>2. CASE attempt[t].state # "none"
  <2>1. attempt'[t].order = attempt[t].order
    BY <1>1, <1>2, OnlyGateway, AttemptsKept
  <2>2. attempt[t].order \in Payment
    BY <1>1, <1>2, <2>1 DEF TypeOK, Attempt, NoAttempt
  <2>3. QED
    BY <1>1, <1>2, <2>1, <2>2, ReferenceKept DEF OpenInv
<1>3. CASE attempt[t].state = "none"
  <2>1. GatewayNext
    BY <1>3, OnlyGateway
  <2>2. PICK u \in TxnId : \/ \E order \in Payment \cup {None}, a \in Amount :
                                NewAttempt(u, order, a)
                           \/ \E result \in {"success", "failed"} : Decide(u, result)
                           \/ Reverse(u)
    BY <2>1 DEF GatewayNext
  <2>3. ASSUME Reverse(u) \/ \E result \in {"success", "failed"} : Decide(u, result)
        PROVE  FALSE
    <3>1. u # t
      BY <1>3, <2>3 DEF Reverse, Decide
    <3>2. attempt'[t] = attempt[t]
      BY <1>1, <2>3, <3>1, Zenon DEF Reverse, Decide, TypeOK
    <3>3. QED
      BY <1>3, <3>2
  <2>4. PICK order \in Payment \cup {None}, a \in Amount : NewAttempt(u, order, a)
    BY <2>2, <2>3
  <2>5. u = t
    BY <1>1, <1>3, <2>4 DEF NewAttempt, TypeOK
  <2>6. attempt'[t].order = order /\ reference' = reference
    BY <1>1, <2>4, <2>5 DEF NewAttempt, TypeOK, table
  <2>7. QED
    BY <2>4, <2>6 DEF NewAttempt
<1>4. QED
  BY <1>2, <1>3

\* A payment is initiated by one process, and unpaid until that is done.
LEMMA OpenStep == IInv /\ [Next]_vars => OpenInv'
<1> SUFFICES ASSUME IInv, [Next]_vars PROVE OpenInv'
  OBVIOUS
<1> USE DEF Opening
<1>1. TypeOK /\ OpenInv
  BY DEF IInv, Workers
<1>2. ASSUME NEW v \in Worker, pc'[v] \in Opening
      PROVE  \/ pc[v] \in Opening /\ target'[v] = target[v]
             \/ \E s \in Payment, r \in TxnPk, a \in Amount : Initiate(v, s, r, a)
  BY <1>1, <1>2, OwnStep
     DEF Deliver, AskFinal, LockPayment, BeginGrant, GatewayRefuses, Goto, TypeOK
<1>3. ASSUME NEW v \in Worker, pc[v] \in Opening, pc'[v] \in Opening, target'[v] = target[v]
      PROVE  target'[v] \in Created' /\ ~ reference'[target'[v]]
  <2>1. target[v] \in Payment /\ ~ reference[target[v]] /\ target[v] \in Created
    BY <1>1, <1>3 DEF OpenInv, Created
  <2>2. ASSUME NEW w \in Worker, GatewayAccepts(w), target[w] = target[v] PROVE FALSE
    <3>1. w = v
      BY <1>1, <1>3, <2>2 DEF OpenInv, GatewayAccepts
    <3>2. QED
      BY <1>1, <1>3, <2>2, <3>1 DEF GatewayAccepts, Goto, TypeOK
  <2>3. QED
    BY <1>3, <2>1, <2>2, ReferenceKept
<1>4. ASSUME NEW v \in Worker, NEW s \in Payment, NEW r \in TxnPk, NEW a \in Amount,
             Initiate(v, s, r, a)
      PROVE  /\ target' = [target EXCEPT ![v] = s] /\ pc' = [pc EXCEPT ![v] = "initiate"]
             /\ s \notin Created /\ s \in Created' /\ ~ reference'[s]
  BY <1>1, <1>4 DEF Initiate, Created, OpenInv, NextKey, Goto, TypeOK
<1>5. \A v \in Worker : pc'[v] \in Opening => target'[v] \in Created' /\ ~ reference'[target'[v]]
  BY <1>1, <1>2, <1>3, <1>4 DEF TypeOK
<1>6. ASSUME NEW v \in Worker, NEW w \in Worker, v # w,
             pc'[v] \in Opening, pc'[w] \in Opening
      PROVE  target'[v] # target'[w]
  BY <1>1, <1>2, <1>4, <1>6 DEF OpenInv, TypeOK
<1>7. \A s \in Payment : reference'[s] => s \in Created'
  BY <1>1, ReferenceKept DEF OpenInv, GatewayAccepts
<1>8. QED
  BY <1>5, <1>6, <1>7, AttemptNeedsReference DEF OpenInv

-----------------------------------------------------------------------------
(* The records.                                                            *)

\* Payments the customer cannot pay yet have no transaction of the gateway.
LEMMA UnpaidRows ==
  ASSUME IInv, NEW s \in Payment, ~ reference[s]
  PROVE  /\ \A r \in RowsOf(s) : txns[r].tid = None /\ txns[r].state # "completed"
         /\ status[s] # "completed"
<1>1. TypeOK /\ OpenInv /\ RowInv /\ LedgerAgrees /\ OnePeriodPerPayment
  BY DEF IInv, Workers, Records
<1>2. ASSUME NEW r \in RowsOf(s) PROVE txns[r].tid = None /\ txns[r].state # "completed"
  <2>1. r \in Rows /\ txns[r].sub = s /\ txns[r] \in Row
    BY <1>1 DEF RowsOf, Rows, TypeOK, Absent
  <2>2. txns[r].tid = None
    BY <1>1, <2>1, NoneIsNothing DEF LedgerAgrees, OpenInv, Row
  <2>3. QED
    BY <1>1, <2>1, <2>2 DEF RowInv
<1>3. QED
  BY <1>1, <1>2 DEF OnePeriodPerPayment, CompletedOf

\* Steps that leave the payment tables alone keep the records right.
LEMMA RecordsUntouched ==
  ASSUME IInv, GatewayNext \/ UNCHANGED attempt, UNCHANGED <<status, txns, grants>>
  PROVE  Records'
<1>1. TypeOK /\ RowInv /\ LedgerAgrees /\ TransactionIdsUnique /\ OnePeriodPerPayment
  BY DEF IInv, Records
<1>2. Rows' = Rows /\ Created' = Created
  BY DEF Rows, Created
<1>3. RowInv' /\ TransactionIdsUnique'
  BY <1>1, <1>2 DEF RowInv, TransactionIdsUnique
<1>4. OnePeriodPerPayment'
  BY <1>1, <1>2 DEF OnePeriodPerPayment, CompletedOf, RowsOf
<1>5. ASSUME NEW r \in Rows, txns[r].tid # None PROVE txns[r].tid \in TxnId
  BY <1>1, <1>5 DEF TypeOK, Row, Rows, Absent
<1>6. LedgerAgrees'
  BY <1>1, <1>2, <1>5, AttemptsKept DEF LedgerAgrees
<1>7. QED
  BY <1>3, <1>4, <1>6 DEF Records

\* Starting a payment adds a pending payment with one pending row.
LEMMA RecordsInitiate ==
  ASSUME IInv, NEW w \in Worker, NEW s \in Payment, NEW r \in TxnPk, NEW a \in Amount,
         Initiate(w, s, r, a)
  PROVE  Records'
<1>1. TypeOK /\ RowInv /\ LedgerAgrees /\ TransactionIdsUnique /\ OnePeriodPerPayment
  BY DEF IInv, Records
<1>2. /\ r \notin Rows /\ s \notin Created /\ status' = [status EXCEPT ![s] = "pending"]
      /\ txns' = [txns EXCEPT ![r] = NewTxn(s, None, a, "pending")]
      /\ grants' = grants /\ attempt' = attempt
  BY DEF Initiate, NextKey
<1>3. /\ Rows' = Rows \cup {r} /\ Created' = Created \cup {s}
      /\ \A q \in Rows : txns'[q] = txns[q] /\ txns[q].sub # s
      /\ txns'[r] = [state |-> "pending", sub |-> s, tid |-> None, amount |-> a]
  BY <1>1, <1>2 DEF Rows, Created, TypeOK, NewTxn, RowInv
<1>4. RowInv' /\ TransactionIdsUnique'
  BY <1>1, <1>3 DEF RowInv, TransactionIdsUnique
<1>5. LedgerAgrees'
  BY <1>1, <1>2, <1>3 DEF LedgerAgrees, Succeeded
<1>6. \A q \in Payment : CompletedOf(q)' = CompletedOf(q)
  BY <1>3 DEF CompletedOf, RowsOf
<1>7. OnePeriodPerPayment'
  BY <1>1, <1>2, <1>6 DEF OnePeriodPerPayment, TypeOK, Created
<1>8. QED
  BY <1>4, <1>5, <1>7 DEF Records

\* A refused payment becomes failed; nothing was granted for it.
LEMMA RecordsRefuse ==
  ASSUME IInv, NEW w \in Worker, GatewayRefuses(w)
  PROVE  Records'
<1>1. /\ TypeOK /\ OpenInv /\ RowInv /\ LedgerAgrees /\ TransactionIdsUnique
      /\ OnePeriodPerPayment
  BY DEF IInv, Workers, Records
<1>2. target[w] \in Created /\ ~ reference[target[w]]
  BY <1>1 DEF GatewayRefuses, OpenInv, Opening
<1>3. /\ status' = [status EXCEPT ![target[w]] = "failed"]
      /\ UNCHANGED <<txns, grants, attempt>>
  BY DEF GatewayRefuses
<1>4. status[target[w]] # "completed"
  BY <1>2, UnpaidRows DEF Created
<1>5. Rows' = Rows /\ Created' = Created
  BY <1>1, <1>2, <1>3 DEF Rows, Created, TypeOK
<1>6. RowInv' /\ TransactionIdsUnique' /\ LedgerAgrees'
  BY <1>1, <1>3, <1>5 DEF RowInv, TransactionIdsUnique, LedgerAgrees, Succeeded
<1>7. OnePeriodPerPayment'
  BY <1>1, <1>3, <1>4, <1>5 DEF OnePeriodPerPayment, CompletedOf, RowsOf, TypeOK
<1>8. QED
  BY <1>6, <1>7 DEF Records

\* The second save of _mark_failed changes the state of the payment's one row.
LEMMA MarkedRows ==
  ASSUME IInv, NEW w \in Worker, MarkTxnFailed(w)
  PROVE  /\ target[w] \in Payment /\ ~ reference[target[w]]
         /\ Rows' = Rows
         /\ \A r \in Rows : r \notin RowsOf(target[w]) => txns'[r] = txns[r]
         /\ \A r \in RowsOf(target[w]) :
              /\ txns[r].tid = None /\ txns[r].state # "completed"
              /\ txns'[r].state = "failed"
              /\ txns'[r].sub = txns[r].sub
              /\ txns'[r].tid = txns[r].tid
              /\ txns'[r].amount = txns[r].amount
<1>1. TypeOK /\ OpenInv
  BY DEF IInv, Workers
<1>2. target[w] \in Payment /\ ~ reference[target[w]]
  BY <1>1 DEF MarkTxnFailed, OpenInv, Opening, Created
<1>3. \A r \in RowsOf(target[w]) : r \in Rows /\ r \in TxnPk
  BY DEF RowsOf, Rows
<1>4. ASSUME NEW r \in TxnPk, r \notin RowsOf(target[w]) PROVE txns'[r] = txns[r]
  BY <1>4, Zenon DEF MarkTxnFailed
<1>5. ASSUME NEW r \in RowsOf(target[w]) PROVE txns'[r] = [txns[r] EXCEPT !.state = "failed"]
  BY <1>3, <1>5, Zenon DEF MarkTxnFailed
<1>6. ASSUME NEW r \in RowsOf(target[w])
      PROVE  /\ txns'[r].state = "failed" /\ txns'[r].sub = txns[r].sub
             /\ txns'[r].tid = txns[r].tid /\ txns'[r].amount = txns[r].amount
  <2>1. /\ [txns[r] EXCEPT !.state = "failed"].state = "failed"
        /\ [txns[r] EXCEPT !.state = "failed"].sub = txns[r].sub
        /\ [txns[r] EXCEPT !.state = "failed"].tid = txns[r].tid
        /\ [txns[r] EXCEPT !.state = "failed"].amount = txns[r].amount
    BY <1>1, <1>3, RowWithState
  <2>2. QED
    BY <1>5, <2>1, Zenon
<1>7. Rows' = Rows
  BY <1>3, <1>4, <1>6 DEF Rows
<1>8. QED
  BY <1>2, <1>3, <1>4, <1>6, <1>7, UnpaidRows DEF Rows

\* That save finds the row without a transaction id, and fails it.
LEMMA RecordsMark ==
  ASSUME IInv, NEW w \in Worker, MarkTxnFailed(w)
  PROVE  Records'
<1>1. TypeOK /\ RowInv /\ LedgerAgrees /\ TransactionIdsUnique /\ OnePeriodPerPayment
  BY DEF IInv, Records
<1>2. UNCHANGED <<status, grants, attempt>> /\ Created' = Created
  BY DEF MarkTxnFailed, Created
<1>3. \A r \in Rows : txns'[r].sub = txns[r].sub /\ txns'[r].tid = txns[r].tid
                      /\ txns'[r].amount = txns[r].amount
  BY MarkedRows
<1>4. \A r \in Rows : txns'[r].state # txns[r].state =>
        txns[r].tid = None /\ txns[r].state # "completed" /\ txns'[r].state = "failed"
  BY MarkedRows
<1>5. Rows' = Rows
  BY MarkedRows
<1>6. RowInv' /\ TransactionIdsUnique'
  BY <1>1, <1>2, <1>3, <1>4, <1>5 DEF RowInv, TransactionIdsUnique
<1>7. LedgerAgrees'
  BY <1>1, <1>2, <1>3, <1>4, <1>5 DEF LedgerAgrees, Succeeded
<1>8. \A s \in Payment : CompletedOf(s)' = CompletedOf(s)
  BY <1>3, <1>4, <1>5 DEF CompletedOf, RowsOf
<1>9. QED
  BY <1>1, <1>2, <1>6, <1>7, <1>8 DEF Records, OnePeriodPerPayment

\* The row a result is written to: one of the payment that is not completed and
\* has no id or this one, or a new row with the payment's amount.
LEMMA WrittenRow ==
  ASSUME IInv, NEW w \in Worker, NEW r \in TxnPk, NEW state \in {"completed", "failed"},
         pc[w] \in Critical, RowToWrite(target[w], event[w], r),
         ~ Settled(event[w], target[w]), WriteResult(w, r, state)
  PROVE  /\ RowsFor(event[w]) \subseteq {r}
         /\ r \in Rows => /\ txns[r].sub = target[w] /\ txns[r].state # "completed"
                          /\ txns[r].tid \in {None, event[w]}
         /\ \E q \in Rows : txns[q].sub = target[w]
         /\ Rows' = Rows \cup {r}
         /\ \A q \in TxnPk \ {r} : txns'[q] = txns[q]
         /\ txns'[r].state = state /\ txns'[r].sub = target[w] /\ txns'[r].tid = event[w]
         /\ txns'[r].amount \in Amount
         /\ \A q \in Rows : txns[q].sub = target[w] => txns[q].amount = txns'[r].amount
<1>1. TypeOK /\ EventInv /\ RowInv /\ LedgerAgrees /\ TransactionIdsUnique
  BY DEF IInv, Workers, Records
<1>2. target[w] \in Payment /\ event[w] \in TxnId /\ event[w] # None
  BY <1>1, NoneIsNothing DEF EventInv, Critical, Busy
<1>3. ASSUME RowsFor(event[w]) # {}
      PROVE  /\ RowsFor(event[w]) \subseteq {r}
             /\ r \in Rows => /\ txns[r].sub = target[w] /\ txns[r].state # "completed"
                              /\ txns[r].tid \in {None, event[w]}
  <2>1. r \in RowsFor(event[w]) /\ RowsFor(event[w]) \subseteq {r}
    BY <1>1, <1>2, <1>3 DEF RowToWrite, RowsFor, TransactionIdsUnique
  <2>2. QED
    BY <1>2, <2>1 DEF RowsFor, Settled
<1>4. ASSUME RowsFor(event[w]) = {}, Waiting(target[w]) # {}
      PROVE  /\ RowsFor(event[w]) \subseteq {r}
             /\ r \in Rows => /\ txns[r].sub = target[w] /\ txns[r].state # "completed"
                              /\ txns[r].tid \in {None, event[w]}
  BY <1>4 DEF RowToWrite, Waiting, PendingOf, RowsOf
<1>5. ASSUME RowsFor(event[w]) = {}, Waiting(target[w]) = {}
      PROVE  /\ RowsFor(event[w]) \subseteq {r}
             /\ r \in Rows => /\ txns[r].sub = target[w] /\ txns[r].state # "completed"
                              /\ txns[r].tid \in {None, event[w]}
  BY <1>5 DEF RowToWrite, NextKey
<1>6. /\ RowsFor(event[w]) \subseteq {r}
      /\ r \in Rows => /\ txns[r].sub = target[w] /\ txns[r].state # "completed"
                       /\ txns[r].tid \in {None, event[w]}
  BY <1>3, <1>4, <1>5
<1>7. PICK a \in Amount : /\ Expected(target[w], r, a)
                          /\ txns' = [txns EXCEPT ![r] = NewTxn(target[w], event[w], a, state)]
  BY DEF WriteResult
<1>8. /\ txns'[r] = [state |-> state, sub |-> target[w], tid |-> event[w], amount |-> a]
      /\ \A q \in TxnPk \ {r} : txns'[q] = txns[q]
  BY <1>1, <1>7 DEF NewTxn, TypeOK
<1>9. PICK p \in RowsOf(target[w]) : a = txns[p].amount
  BY <1>7 DEF Expected
<1>10. \A q \in Rows : txns[q].sub = target[w] => txns[q].amount = a
  BY <1>1, <1>9 DEF RowInv, RowsOf
<1>11. Rows' = Rows \cup {r}
  BY <1>8 DEF Rows
<1>12. QED
  BY <1>6, <1>7, <1>8, <1>9, <1>10, <1>11 DEF RowsOf

\* Writing a result that the gateway has given keeps the records right, the
\* completed rows of the payment aside.
LEMMA RecordsWritten ==
  ASSUME IInv, NEW w \in Worker, NEW r \in TxnPk, NEW state \in {"completed", "failed"},
         NEW s \in Payment, NEW t \in TxnId, s = target[w], t = event[w],
         pc[w] \in Critical, RowToWrite(s, t, r), ~ Settled(t, s), WriteResult(w, r, state), UNCHANGED attempt,
         s \in Created', Created \subseteq Created',
         state = "failed" => ~ Succeeded(t),
         state = "completed" =>
           Succeeded(t) /\ AmountDue(s, attempt[t].amount)
  PROVE  /\ RowInv' /\ LedgerAgrees' /\ TransactionIdsUnique'
         /\ \A u \in Payment \ {s} : CompletedOf(u)' = CompletedOf(u)
         /\ CompletedOf(s)' =
              CompletedOf(s) \cup (IF state = "completed" THEN {r} ELSE {})
<1>1. TypeOK /\ EventInv /\ RowInv /\ LedgerAgrees /\ TransactionIdsUnique
  BY DEF IInv, Workers, Records
<1>2. /\ t # None /\ Decided(t) /\ attempt[t].order = s
  BY <1>1, NoneIsNothing DEF EventInv, Critical, Busy
<1>3. /\ RowsFor(t) \subseteq {r}
      /\ r \in Rows => /\ txns[r].sub = s /\ txns[r].state # "completed"
                       /\ txns[r].tid \in {None, t}
      /\ Rows' = Rows \cup {r}
      /\ \A q \in TxnPk \ {r} : txns'[q] = txns[q]
      /\ txns'[r].state = state /\ txns'[r].sub = s /\ txns'[r].tid = t
      /\ \A q \in Rows : txns[q].sub = s => txns[q].amount = txns'[r].amount
  BY WrittenRow
<1>4. Rows \subseteq TxnPk
  BY DEF Rows
<1>5. \A q \in Rows' : q # r => q \in Rows /\ txns'[q] = txns[q]
  BY <1>3, <1>4
<1>6. TransactionIdsUnique'
  <2>1. \A q \in Rows : txns[q].tid = t => q = r
    BY <1>3 DEF RowsFor
  <2>2. QED
    BY <1>1, <1>3, <1>5, <2>1 DEF TransactionIdsUnique
<1>7. RowInv'
  BY <1>1, <1>2, <1>3, <1>5 DEF RowInv
<1>8. state = "completed" => attempt[t].amount = txns'[r].amount
  BY <1>3 DEF AmountDue, RowsOf
<1>9. LedgerAgrees'
  <2>1. /\ attempt[t].state # "none" /\ attempt[t].order = s
        /\ state = "completed" => Succeeded(t)
        /\ state = "failed" => attempt[t].state = "failed"
    BY <1>2 DEF Decided, Succeeded
  <2>2. ASSUME NEW q \in Rows', txns'[q].tid # None
        PROVE  LET u == txns'[q].tid IN
                 /\ attempt[u].state # "none" /\ attempt[u].order = txns'[q].sub
                 /\ txns'[q].state \in {"completed", "failed"}
                 /\ txns'[q].state = "completed" =>
                      Succeeded(u) /\ attempt[u].amount = txns'[q].amount
                 /\ txns'[q].state = "failed" => attempt[u].state = "failed"
    <3>1. CASE q = r
      BY <1>3, <1>8, <2>1, <3>1
    <3>2. CASE q # r
      BY <1>1, <1>5, <2>2, <3>2 DEF LedgerAgrees
    <3>3. QED
      BY <3>1, <3>2
  <2>3. QED
    BY <2>2 DEF LedgerAgrees, Succeeded
<1>10. \A u \in Payment \ {s} : CompletedOf(u)' = CompletedOf(u)
  BY <1>3, <1>5 DEF CompletedOf, RowsOf
<1>11. CompletedOf(s)' = CompletedOf(s) \cup (IF state = "completed" THEN {r} ELSE {})
  BY <1>3, <1>5 DEF CompletedOf, RowsOf
<1>12. QED
  BY <1>6, <1>7, <1>9, <1>10, <1>11

\* A recorded failure writes one row, which is not completed.
LEMMA RecordsFailure ==
  ASSUME IInv, NEW w \in Worker, NEW r \in TxnPk, RecordFailure(w, r)
  PROVE  Records'
<1>1. TypeOK /\ EventInv /\ OnePeriodPerPayment /\ RowInv
  BY DEF IInv, Workers, Records
<1>2. /\ pc[w] \in Critical /\ RowToWrite(target[w], event[w], r)
      /\ ~ Settled(event[w], target[w]) /\ ~ Succeeded(event[w])
      /\ WriteResult(w, r, "failed") /\ UNCHANGED <<attempt, grants>>
      /\ status' = [status EXCEPT ![target[w]] = StatusAfterFailure(target[w])]
      /\ target[w] \in Payment
  BY <1>1 DEF RecordFailure, Critical, EventInv, Busy
<1> PICK s \in Payment, t \in TxnId : s = target[w] /\ t = event[w]
  BY <1>1, <1>2 DEF EventInv, Critical, Busy
<1>3. target[w] \in Created
  BY <1>1, <1>2, WrittenRow DEF RowInv
<1>4. Created' = Created
  BY <1>1, <1>2, <1>3 DEF Created, StatusAfterFailure, TypeOK
<1>5. /\ RowInv' /\ LedgerAgrees' /\ TransactionIdsUnique'
      /\ \A u \in Payment : CompletedOf(u)' = CompletedOf(u)
  BY <1>2, <1>3, <1>4, RecordsWritten
<1>6. \A u \in Payment : status'[u] = "completed" <=> status[u] = "completed"
  BY <1>1, <1>2 DEF StatusAfterFailure, TypeOK
<1>7. OnePeriodPerPayment'
  BY <1>1, <1>2, <1>5, <1>6 DEF OnePeriodPerPayment
<1>8. QED
  BY <1>5, <1>7 DEF Records

\* A committed success completes one row, the payment, and one period.
LEMMA RecordsGrant ==
  ASSUME IInv, NEW w \in Worker, NEW r \in TxnPk, CommitGrant(w, r)
  PROVE  Records'
<1>1. TypeOK /\ EventInv /\ GrantInv /\ OnePeriodPerPayment /\ RowInv
  BY DEF IInv, Workers, Records
<1>2. /\ pc[w] = "activate" /\ RowToWrite(target[w], event[w], r)
      /\ WriteResult(w, r, "completed") /\ UNCHANGED attempt
      /\ status' = [status EXCEPT ![target[w]] = "completed"]
      /\ grants' = [grants EXCEPT ![target[w]] = @ + 1]
      /\ target[w] \in Payment
  BY <1>1 DEF CommitGrant, Completed, EventInv, Busy
<1> PICK s \in Payment, t \in TxnId : s = target[w] /\ t = event[w]
  BY <1>1, <1>2 DEF EventInv, Busy
<1>3. /\ status[target[w]] # "completed" /\ Succeeded(event[w])
      /\ AmountDue(target[w], attempt[event[w]].amount)
      /\ ~ Settled(event[w], target[w])
  BY <1>1, <1>2 DEF GrantInv
<1>4. target[w] \in Created' /\ Created \subseteq Created'
  BY <1>1, <1>2 DEF Created, TypeOK
<1>5. /\ RowInv' /\ LedgerAgrees' /\ TransactionIdsUnique'
      /\ \A u \in Payment \ {s} : CompletedOf(u)' = CompletedOf(u)
      /\ CompletedOf(s)' = CompletedOf(s) \cup {r}
  BY <1>2, <1>3, <1>4, RecordsWritten DEF Critical
<1>6. grants[target[w]] = 0 /\ CompletedOf(target[w]) = {}
  BY <1>1, <1>2, <1>3 DEF OnePeriodPerPayment
<1>7. OnePeriodPerPayment'
  <2>1. ASSUME NEW u \in Payment, u # s
        PROVE  /\ status'[u] = status[u] /\ grants'[u] = grants[u]
               /\ CompletedOf(u)' = CompletedOf(u)
    BY <1>1, <1>2, <1>5, <2>1 DEF TypeOK
  <2>2. /\ status'[s] = "completed" /\ grants'[s] = 1
        /\ CompletedOf(s)' = {r}
    BY <1>1, <1>2, <1>5, <1>6 DEF TypeOK
  <2>3. QED
    BY <1>1, <2>1, <2>2 DEF OnePeriodPerPayment
<1>8. QED
  BY <1>5, <1>7 DEF Records

\* Every step keeps the records right.
LEMMA RecordsStep == IInv /\ [Next]_vars => Records'
<1> SUFFICES ASSUME IInv, [Next]_vars PROVE Records'
  OBVIOUS
<1>1. ASSUME UNCHANGED <<status, txns, grants>> PROVE Records'
  BY <1>1, OnlyGateway, RecordsUntouched
<1>2. CASE GatewayNext \/ UNCHANGED vars \/ \E s \in Payment : Age(s)
  BY <1>1, <1>2, GatewayFrame DEF Age, vars, table
<1>3. ASSUME NEW w \in Worker,
             \/ GatewayAccepts(w) \/ LockPayment(w) \/ RollBack(w) \/ Crash(w)
             \/ ReconcileStep(w)
             \/ \E r \in TxnPk : Discard(w, r) \/ BeginGrant(w, r)
             \/ \E t \in TxnId, q \in Payment : Deliver(w, t, q)
      PROVE  Records'
  BY <1>1, <1>3 DEF GatewayAccepts, LockPayment, RollBack, Crash, ReconcileStep, Discard,
       BeginGrant, Deliver, BeginReconcile, AskFinal, AskNotFinal, AskFails, Leave, table
<1>4. QED
  BY <1>2, <1>3, RecordsInitiate, RecordsRefuse, RecordsMark, RecordsFailure, RecordsGrant
     DEF Next, InitiateStep, ProcessStep

-----------------------------------------------------------------------------
(* What activate_subscription is called for.                               *)

\* What a process has checked under the payment's lock stays true while it
\* holds the lock.
LEMMA CheckedStays ==
  ASSUME IInv, [Next]_vars, NEW v \in Worker, NEW s \in Payment, NEW t \in TxnId, NEW a,
         s = target[v], t = event[v], pc[v] \in Critical, pc'[v] = "activate",
         status[s] # "completed", ~ Settled(t, s), AmountDue(s, a)
  PROVE  status'[s] # "completed" /\ ~ Settled(t, s)' /\ AmountDue(s, a)'
<1>1. /\ TypeOK /\ HolderInv /\ EventInv /\ OpenInv /\ RowInv
      /\ t # None
  BY NoneIsNothing DEF IInv, Workers, Records
<1>2. PICK p \in Rows : txns[p].sub = s /\ txns[p].amount = a
  BY DEF AmountDue, RowsOf
<1>3. ASSUME UNCHANGED <<status, txns>>
      PROVE  status'[s] # "completed" /\ ~ Settled(t, s)' /\ AmountDue(s, a)'
  BY <1>3 DEF Settled, RowsFor, Rows, AmountDue, RowsOf
<1>4. ASSUME p \in Rows', txns'[p].sub = s, txns'[p].amount = a, status'[s] # "completed",
             \A q \in Rows' : txns'[q].tid = t =>
               q \in Rows /\ txns[q].tid = t /\ txns'[q].sub = txns[q].sub
               /\ (txns'[q].state = "completed" => txns[q].state = "completed")
      PROVE  status'[s] # "completed" /\ ~ Settled(t, s)' /\ AmountDue(s, a)'
  BY <1>4 DEF Settled, RowsFor, AmountDue, RowsOf
<1>5. CASE GatewayNext \/ UNCHANGED vars \/ \E q \in Payment : Age(q)
  BY <1>3, <1>5, GatewayFrame DEF Age, vars, table
<1>6. ASSUME NEW w \in Worker, NEW q \in Payment, NEW r \in TxnPk, NEW b \in Amount,
             Initiate(w, q, r, b)
      PROVE  status'[s] # "completed" /\ ~ Settled(t, s)' /\ AmountDue(s, a)'
  <2>1. /\ r \notin Rows /\ status' = [status EXCEPT ![q] = "pending"]
        /\ txns' = [txns EXCEPT ![r] = NewTxn(q, None, b, "pending")]
    BY <1>6 DEF Initiate, NextKey
  <2>2. /\ status'[s] # "completed" /\ Rows' = Rows \cup {r}
        /\ \A u \in Rows : txns'[u] = txns[u]
        /\ txns'[r].tid = None
    BY <1>1, <2>1 DEF Rows, TypeOK, NewTxn
  <2>3. QED
    BY <1>1, <1>2, <1>4, <2>2
<1>7. ASSUME NEW w \in Worker, GatewayRefuses(w)
      PROVE  status'[s] # "completed" /\ ~ Settled(t, s)' /\ AmountDue(s, a)'
  <2>1. status'[s] # "completed" /\ txns' = txns
    BY <1>1, <1>7 DEF GatewayRefuses, TypeOK
  <2>2. QED
    BY <1>2, <1>4, <2>1 DEF Rows
<1>8. ASSUME NEW w \in Worker, MarkTxnFailed(w)
      PROVE  status'[s] # "completed" /\ ~ Settled(t, s)' /\ AmountDue(s, a)'
  <2>1. status' = status
    BY <1>8 DEF MarkTxnFailed
  <2>2. QED
    BY <1>2, <1>4, <1>8, <2>1, MarkedRows
<1>9. ASSUME NEW w \in Worker, NEW r \in TxnPk, RecordFailure(w, r) \/ CommitGrant(w, r)
      PROVE  status'[s] # "completed" /\ ~ Settled(t, s)' /\ AmountDue(s, a)'
  <2>1. w # v /\ pc[w] \in Critical
    BY <1>1, <1>9 DEF RecordFailure, CommitGrant, Finish, Goto, TypeOK, Critical
  <2>2. target[w] # s /\ event[w] # t
    BY <1>1, <2>1, Apart
  <2>3. \E state \in {"completed", "failed"} :
           WriteResult(w, r, state) /\ RowToWrite(target[w], event[w], r)
           /\ ~ Settled(event[w], target[w])
    BY <1>9 DEF RecordFailure, CommitGrant, Completed, IInv, Workers, GrantInv
  <2>4. /\ r \in Rows => txns[r].sub = target[w]
        /\ Rows' = Rows \cup {r}
        /\ \A q \in TxnPk \ {r} : txns'[q] = txns[q]
        /\ txns'[r].tid = event[w]
    BY <2>1, <2>3, WrittenRow
  <2>5. status'[s] = status[s]
    BY <1>1, <1>9, <2>2 DEF RecordFailure, CommitGrant, Completed, TypeOK
  <2>6. p # r /\ \A q \in Rows' : q # r => q \in Rows /\ txns'[q] = txns[q]
    BY <1>2, <2>2, <2>4 DEF Rows
  <2>7. p \in Rows' /\ txns'[p] = txns[p]
    BY <1>2, <2>4, <2>6
  <2>8. \A q \in Rows' : txns'[q].tid = t => q # r
    BY <2>2, <2>4
  <2>9. QED
    BY <1>2, <1>4, <2>5, <2>6, <2>7, <2>8
<1>10. ASSUME NEW w \in Worker,
             \/ GatewayAccepts(w) \/ LockPayment(w) \/ RollBack(w) \/ Crash(w)
             \/ ReconcileStep(w)
             \/ \E r \in TxnPk : Discard(w, r) \/ BeginGrant(w, r)
             \/ \E u \in TxnId, q \in Payment : Deliver(w, u, q)
      PROVE  UNCHANGED <<status, txns>>
  BY <1>10 DEF GatewayAccepts, LockPayment, RollBack, Crash, ReconcileStep, Discard,
       BeginGrant, Deliver, BeginReconcile, AskFinal, AskNotFinal, AskFails, Leave, table
<1>11. QED
  BY <1>3, <1>5, <1>6, <1>7, <1>8, <1>9, <1>10 DEF Next, InitiateStep, ProcessStep

\* Nothing invalidates the checks of process_webhook_event before its commit.
LEMMA GrantStep == IInv /\ [Next]_vars => GrantInv'
<1> SUFFICES ASSUME IInv, [Next]_vars, NEW v \in Worker, pc'[v] = "activate"
             PROVE  /\ status'[target'[v]] # "completed"
                    /\ Succeeded(event[v])'
                    /\ AmountDue(target[v], attempt[event[v]].amount)'
                    /\ ~ Settled(event[v], target[v])'
  BY DEF GrantInv
<1>1. TypeOK /\ EventInv /\ GrantInv
  BY DEF IInv, Workers
<1>2. \/ pc[v] = "activate" /\ target'[v] = target[v] /\ event'[v] = event[v]
      \/ \E r \in TxnPk : BeginGrant(v, r)
  BY <1>1, OwnStep DEF Deliver, AskFinal, LockPayment, Initiate, GatewayRefuses, Goto, TypeOK
<1>3. /\ pc[v] \in Critical /\ target'[v] = target[v] /\ event'[v] = event[v]
      /\ status[target[v]] # "completed" /\ Succeeded(event[v])
      /\ AmountDue(target[v], attempt[event[v]].amount)
      /\ ~ Settled(event[v], target[v])
  BY <1>1, <1>2 DEF GrantInv, BeginGrant, MayGrant, Expected, AmountDue, Critical
<1>4. PICK s \in Payment, t \in TxnId : s = target[v] /\ t = event[v]
  BY <1>1, <1>3 DEF EventInv, Critical, Busy
<1>5. attempt'[t].amount = attempt[t].amount /\ Succeeded(t)'
  BY <1>1, <1>3, <1>4, OnlyGateway, AttemptsKept DEF Succeeded
<1>6. status'[s] # "completed" /\ ~ Settled(t, s)' /\ AmountDue(s, attempt[t].amount)'
  <2> DEFINE a == attempt[t].amount
  <2>1. AmountDue(s, a)
    BY <1>3, <1>4
  <2>2. PICK b : b = a
    OBVIOUS
  <2>3. AmountDue(s, b)' /\ status'[s] # "completed" /\ ~ Settled(t, s)'
    BY <1>3, <1>4, <2>1, <2>2, CheckedStays
  <2>4. QED
    BY <1>5, <2>2, <2>3 DEF AmountDue
<1>7. QED
  BY <1>3, <1>4, <1>5, <1>6 DEF Succeeded, Settled, AmountDue, RowsFor, RowsOf, Rows

-----------------------------------------------------------------------------
(* The theorems.                                                           *)

\* The invariant holds in the empty database.
LEMMA InitInv == Init => IInv
<1> SUFFICES ASSUME Init PROVE IInv
  OBVIOUS
<1>1. TypeOK
  BY NoneIsNothing DEF Init, TypeOK
<1>2. Rows = {} /\ Created = {}
  BY DEF Init, Rows, Created, Absent
<1>3. Workers
  BY NoneIsNothing DEF Init, Workers, HolderInv, EventInv, OpenInv, GrantInv, Opening, Busy,
                       Critical, NoAttempt
<1>4. Records
  BY <1>2 DEF Init, Records, RowInv, LedgerAgrees, TransactionIdsUnique, OnePeriodPerPayment,
              CompletedOf, RowsOf
<1>5. QED
  BY <1>1, <1>3, <1>4 DEF IInv

\* Every step keeps the inductive invariant.
LEMMA StepInv == IInv /\ [Next]_vars => IInv'
BY TypedStep, WorkersStep, OpenStep, GrantStep, RecordsStep DEF IInv, Workers

\* The inductive invariant holds in every reachable state.
LEMMA Invariance == Spec => []IInv
BY InitInv, StepInv, PTL DEF Spec

\* Every variable keeps its type.
THEOREM TypeCorrect == Spec => []TypeOK
<1>1. IInv => TypeOK
  BY DEF IInv
<1>2. QED
  BY <1>1, Invariance, PTL

\* Whatever the gateway delivers, however often and in whatever order, a payment
\* is granted one period at most, and its records say so.
THEOREM OnePeriod == Spec => []OnePeriodPerPayment
<1>1. IInv => OnePeriodPerPayment
  BY DEF IInv, Records
<1>2. QED
  BY <1>1, Invariance, PTL

\* The records of payments agree with the gateway's.
THEOREM LedgerIsTrue == Spec => []LedgerAgrees
<1>1. IInv => LedgerAgrees
  BY DEF IInv, Records
<1>2. QED
  BY <1>1, Invariance, PTL

\* No save of a transaction row violates the unique transaction_id.
THEOREM IdsAreUnique == Spec => []TransactionIdsUnique
<1>1. IInv => TransactionIdsUnique
  BY DEF IInv, Records
<1>2. QED
  BY <1>1, Invariance, PTL

\* A completed payment stays completed and a transaction row that has its id
\* never changes again.
THEOREM SettledForGood == Spec => SettledStays
<1>1. IInv /\ [Next]_vars =>
        [/\ \A s \in Payment : status[s] = "completed" => status'[s] = "completed"
         /\ \A r \in Rows : txns[r].tid # None => txns'[r] = txns[r]]_vars
  <2> SUFFICES ASSUME IInv, [Next]_vars
               PROVE  /\ \A s \in Payment : status[s] = "completed" => status'[s] = "completed"
                      /\ \A r \in Rows : txns[r].tid # None => txns'[r] = txns[r]
    OBVIOUS
  <2> DEFINE Goal == /\ \A s \in Payment : status[s] = "completed" => status'[s] = "completed"
                     /\ \A r \in Rows : txns[r].tid # None => txns'[r] = txns[r]
  <2>1. TypeOK /\ EventInv /\ GrantInv /\ OpenInv /\ LedgerAgrees /\ RowInv
    BY DEF IInv, Workers, Records
  <2>2. ASSUME UNCHANGED <<status, txns>> PROVE Goal
    BY <2>2
  <2>3. ASSUME NEW w \in Worker, NEW q \in Payment, NEW r \in TxnPk, NEW a \in Amount,
               Initiate(w, q, r, a)
        PROVE  Goal
    BY <2>1, <2>3 DEF Initiate, NextKey, Rows, Created, TypeOK
  <2>4. ASSUME NEW w \in Worker, GatewayRefuses(w) PROVE Goal
    <3>1. status[target[w]] # "completed"
      BY <2>1, <2>4, UnpaidRows DEF GatewayRefuses, OpenInv, Opening, Created
    <3>2. QED
      BY <2>1, <2>4, <3>1 DEF GatewayRefuses, TypeOK
  <2>5. ASSUME NEW w \in Worker, MarkTxnFailed(w) PROVE Goal
    BY <2>5, MarkedRows DEF MarkTxnFailed
  <2>6. ASSUME NEW w \in Worker, NEW r \in TxnPk, NEW state \in {"completed", "failed"},
               pc[w] \in Critical, RowToWrite(target[w], event[w], r),
               ~ Settled(event[w], target[w]), WriteResult(w, r, state),
               state = "completed" => Succeeded(event[w]),
               state = "failed" => ~ Succeeded(event[w])
        PROVE  \A q \in Rows : txns[q].tid # None => txns'[q] = txns[q]
    <3>1. /\ r \in Rows => /\ txns[r].sub = target[w] /\ txns[r].state # "completed"
                           /\ txns[r].tid \in {None, event[w]}
          /\ \A q \in TxnPk \ {r} : txns'[q] = txns[q]
          /\ txns'[r].state = state /\ txns'[r].sub = target[w] /\ txns'[r].tid = event[w]
          /\ \A q \in Rows : txns[q].sub = target[w] => txns[q].amount = txns'[r].amount
      BY <2>6, WrittenRow
    <3>2. ASSUME r \in Rows, txns[r].tid # None PROVE txns'[r] = txns[r]
      <4>1. /\ txns[r].tid = event[w] /\ txns[r].state = "failed"
            /\ attempt[event[w]].state = "failed"
        BY <2>1, <3>1, <3>2 DEF LedgerAgrees
      <4>2. state = "failed"
        BY <2>6, <4>1 DEF Succeeded
      <4>3. txns[r] \in Row
        BY <2>1, <3>2 DEF Rows, TypeOK, Absent
      <4>4. txns'[r] \in Row
        BY <2>1, <2>6, TypedStep, <3>1 DEF TypeOK, Absent, Rows
      <4>5. QED
        BY <3>1, <3>2, <4>1, <4>2, <4>3, <4>4 DEF Row
    <3>3. QED
      BY <3>1, <3>2 DEF Rows
  <2>7. ASSUME NEW w \in Worker, NEW r \in TxnPk, RecordFailure(w, r) PROVE Goal
    BY <2>1, <2>6, <2>7 DEF RecordFailure, StatusAfterFailure, Critical, TypeOK
  <2>8. ASSUME NEW w \in Worker, NEW r \in TxnPk, CommitGrant(w, r) PROVE Goal
    BY <2>1, <2>6, <2>8 DEF CommitGrant, Completed, GrantInv, Critical, TypeOK
  <2>9. CASE GatewayNext \/ UNCHANGED vars \/ \E q \in Payment : Age(q)
    BY <2>2, <2>9, GatewayFrame DEF Age, vars, table
  <2>10. ASSUME NEW w \in Worker,
               \/ GatewayAccepts(w) \/ LockPayment(w) \/ RollBack(w) \/ Crash(w)
               \/ ReconcileStep(w)
               \/ \E r \in TxnPk : Discard(w, r) \/ BeginGrant(w, r)
               \/ \E u \in TxnId, q \in Payment : Deliver(w, u, q)
        PROVE  UNCHANGED <<status, txns>>
    BY <2>10 DEF GatewayAccepts, LockPayment, RollBack, Crash, ReconcileStep, Discard,
         BeginGrant, Deliver, BeginReconcile, AskFinal, AskNotFinal, AskFails, Leave, table
  <2>11. QED
    BY <2>2, <2>3, <2>4, <2>5, <2>7, <2>8, <2>9, <2>10 DEF Next, InitiateStep, ProcessStep
<1>2. QED
  BY <1>1, Invariance, PTL DEF Spec, SettledStays

-----------------------------------------------------------------------------
(* Which payments are halved.                                              *)

\* A payment has one row without a transaction id, and is no longer pending when it has a
\* row with one.
WaitInv ==
  /\ \A q, r \in Rows :
       txns[q].sub = txns[r].sub /\ txns[q].tid = None /\ txns[r].tid = None => q = r
  /\ \A r \in Rows : txns[r].tid # None => status[txns[r].sub] # "pending"

\* Writing a result gives a row its id and ends the waiting of a pending payment.
LEMMA WaitWritten ==
  ASSUME IInv, WaitInv, NEW w \in Worker, NEW r \in TxnPk, NEW state \in {"completed", "failed"},
         pc[w] \in Critical, RowToWrite(target[w], event[w], r),
         ~ Settled(event[w], target[w]), WriteResult(w, r, state),
         \A s \in Payment : status'[s] = status[s] \/ status'[s] # "pending",
         status'[target[w]] # "pending"
  PROVE  /\ WaitInv'
         /\ \A s \in Payment : Waiting(s)' \subseteq Waiting(s)
         /\ \A s \in Payment : s = target[w] /\ status[s] = "pending" => Waiting(s)' = {}
<1>1. TypeOK /\ EventInv /\ RowInv /\ LedgerAgrees
  BY DEF IInv, Workers, Records
<1>2. target[w] \in Payment /\ event[w] \in TxnId /\ event[w] # None
  BY <1>1, NoneIsNothing DEF EventInv, Critical, Busy
<1>3. /\ Rows' = Rows \cup {r}
      /\ \A q \in TxnPk \ {r} : txns'[q] = txns[q]
      /\ txns'[r].sub = target[w] /\ txns'[r].tid = event[w]
      /\ r \in Rows => txns[r].sub = target[w]
  BY WrittenRow
<1>4. \A q \in Rows : q \in TxnPk /\ txns[q].sub \in Payment
  BY <1>1 DEF RowInv, Created, Rows
<1>5. WaitInv'
  BY <1>2, <1>3, <1>4 DEF WaitInv
<1>6. \A s \in Payment : Waiting(s)' \subseteq Waiting(s) \ {r}
  BY <1>2, <1>3 DEF Waiting, PendingOf, RowsOf, Rows
<1>7. ASSUME status[target[w]] = "pending", NEW q \in Waiting(target[w]) PROVE q = r
  <2>1. q \in Rows /\ txns[q].sub = target[w] /\ txns[q].tid = None
    BY <1>7 DEF Waiting, PendingOf, RowsOf
  <2>2. RowsFor(event[w]) = {}
    BY <1>2, <1>7 DEF WaitInv, RowsFor, Settled
  <2>3. r \in Waiting(target[w])
    BY <1>7, <2>2 DEF RowToWrite
  <2>4. r \in Rows /\ txns[r].sub = target[w] /\ txns[r].tid = None
    BY <2>3 DEF Waiting, PendingOf, RowsOf
  <2>5. QED
    BY <2>1, <2>4 DEF WaitInv
<1>8. QED
  BY <1>2, <1>5, <1>6, <1>7

\* HalvesOnlyByCrash, for one step.
HalvesStep ==
  \A s \in Payment : ~ Halved(s) /\ Halved(s)' =>
    \E w \in Worker : pc[w] = "mark_txn" /\ target[w] = s /\ Crash(w)
Marked(s) == \E w \in Worker : pc[w] = "mark_txn" /\ target[w] = s

\* A payment stays marked until its process marks the row or dies.
LEMMA MarkedStays ==
  ASSUME IInv, [Next]_vars, NEW s \in Payment, Marked(s), ~ Marked(s)'
  PROVE  \E w \in Worker : pc[w] = "mark_txn" /\ target[w] = s /\ (MarkTxnFailed(w) \/ Crash(w))
<1>1. PICK v \in Worker : pc[v] = "mark_txn" /\ target[v] = s
  BY DEF Marked
<1>2. TypeOK
  BY DEF IInv
<1>3. ~ (pc'[v] = pc[v] /\ target'[v] = target[v])
  BY <1>1 DEF Marked
<1> DEFINE Step(w) == InitiateStep(w) \/ ProcessStep(w) \/ ReconcileStep(w) \/ Crash(w)
                      \/ \E t \in TxnId, q \in Payment : Deliver(w, t, q)
<1>4. \E w \in Worker : Step(w)
  BY <1>3, GatewayFrame DEF Next, Age, vars, local
<1>5. Step(v)
  <2>1. ASSUME NEW w \in Worker, w # v, InitiateStep(w) \/ Crash(w) PROVE FALSE
    BY <1>2, <1>3, <2>1 DEF InitiateStep, Initiate, GatewayAccepts, GatewayRefuses, MarkTxnFailed,
         Crash, Goto, TypeOK
  <2>2. ASSUME NEW w \in Worker, w # v, ProcessStep(w) PROVE FALSE
    BY <1>2, <1>3, <2>2 DEF ProcessStep, LockPayment, Discard, RecordFailure, BeginGrant,
         CommitGrant, RollBack, Goto, Finish, TypeOK
  <2>3. ASSUME NEW w \in Worker, w # v, ReconcileStep(w) PROVE FALSE
    BY <1>2, <1>3, <2>3 DEF ReconcileStep, BeginReconcile, AskFinal, AskNotFinal, AskFails, Leave,
         Goto, TypeOK
  <2>4. ASSUME NEW w \in Worker, w # v, NEW t \in TxnId, NEW q \in Payment, Deliver(w, t, q)
        PROVE  FALSE
    BY <1>2, <1>3, <2>4 DEF Deliver, Goto, TypeOK
  <2>5. QED
    BY <1>4, <2>1, <2>2, <2>3, <2>4
<1>6. ~ ProcessStep(v) /\ ~ ReconcileStep(v) /\ \A t \in TxnId, q \in Payment : ~ Deliver(v, t, q)
  BY <1>1 DEF ProcessStep, LockPayment, Discard, RecordFailure, BeginGrant, CommitGrant, RollBack,
       ReconcileStep, BeginReconcile, AskFinal, AskNotFinal, AskFails, NextToAsk, Deliver
<1>7. InitiateStep(v) => MarkTxnFailed(v)
  BY <1>1 DEF InitiateStep, Initiate, GatewayAccepts, GatewayRefuses
<1>8. QED
  BY <1>1, <1>5, <1>6, <1>7

\* A row that has been marked does not wait.
LEMMA MarkedWaits ==
  ASSUME IInv, NEW w \in Worker, MarkTxnFailed(w), NEW s \in Payment, s = target[w]
  PROVE  Waiting(s)' = {}
BY MarkedRows DEF Waiting, PendingOf, RowsOf

\* A step that neither fails a payment nor adds a row to wait halves nothing but by a crash.
LEMMA HalvesFrame ==
  ASSUME IInv, [Next]_vars,
         \A s \in Payment : /\ status'[s] = "failed" => status[s] = "failed" \/ Waiting(s)' = {}
                            /\ status[s] = "failed" => Waiting(s)' \subseteq Waiting(s)
  PROVE  HalvesStep
<1> SUFFICES ASSUME NEW s \in Payment, ~ Halved(s), Halved(s)'
             PROVE  \E w \in Worker : pc[w] = "mark_txn" /\ target[w] = s /\ Crash(w)
  BY DEF HalvesStep
<1>1. status'[s] = "failed" /\ Waiting(s)' # {} /\ ~ Marked(s)'
  BY DEF Halved, Marked
<1>2. status[s] = "failed" /\ Waiting(s) # {}
  BY <1>1
<1>3. Marked(s)
  BY <1>2 DEF Halved, Marked
<1>4. PICK w \in Worker : pc[w] = "mark_txn" /\ target[w] = s /\ (MarkTxnFailed(w) \/ Crash(w))
  BY <1>1, <1>3, MarkedStays
<1>5. QED
  BY <1>1, <1>4, MarkedWaits

\* Every step keeps WaitInv, and halves a payment only where the property says.
LEMMA WaitStep == IInv /\ WaitInv /\ [Next]_vars => WaitInv' /\ HalvesStep
<1> SUFFICES ASSUME IInv, WaitInv, [Next]_vars PROVE WaitInv' /\ HalvesStep
  OBVIOUS
<1>1. TypeOK /\ EventInv /\ OpenInv /\ RowInv /\ LedgerAgrees /\ GrantInv
  BY DEF IInv, Workers, Records
<1>2. ASSUME UNCHANGED <<status, txns>> PROVE WaitInv' /\ HalvesStep
  <2>1. Rows' = Rows /\ \A s \in Payment : Waiting(s)' = Waiting(s)
    BY <1>2 DEF Rows, Waiting, PendingOf, RowsOf
  <2>2. WaitInv'
    BY <1>2, <2>1 DEF WaitInv
  <2>3. QED
    BY <1>2, <2>1, <2>2, HalvesFrame
<1>3. ASSUME NEW w \in Worker, NEW q \in Payment, NEW r \in TxnPk, NEW a \in Amount,
             Initiate(w, q, r, a)
      PROVE  WaitInv' /\ HalvesStep
  <2>1. /\ r \notin Rows /\ q \notin Created /\ status' = [status EXCEPT ![q] = "pending"]
        /\ txns' = [txns EXCEPT ![r] = NewTxn(q, None, a, "pending")]
        /\ pc[w] = "idle"
    BY <1>3 DEF Initiate, NextKey
  <2>2. /\ Rows' = Rows \cup {r}
        /\ \A p \in Rows : txns'[p] = txns[p] /\ txns[p].sub # q /\ txns[p].sub \in Payment
        /\ txns'[r] = [state |-> "pending", sub |-> q, tid |-> None, amount |-> a]
    BY <1>1, <2>1 DEF Rows, Created, TypeOK, NewTxn, RowInv
  <2>3. WaitInv'
    BY <1>1, <2>1, <2>2 DEF WaitInv, TypeOK
  <2>4. \A s \in Payment : s # q => Waiting(s)' = Waiting(s) /\ status'[s] = status[s]
    BY <1>1, <2>1, <2>2 DEF Waiting, PendingOf, RowsOf, TypeOK
  <2>5. status[q] = "absent" /\ status'[q] = "pending"
    BY <1>1, <2>1 DEF Created, TypeOK
  <2>6. QED
    BY <2>3, <2>4, <2>5, HalvesFrame
<1>4. ASSUME NEW w \in Worker, GatewayRefuses(w) PROVE WaitInv' /\ HalvesStep
  <2>1. /\ status' = [status EXCEPT ![target[w]] = "failed"] /\ txns' = txns
        /\ target[w] \in Payment /\ pc'[w] = "mark_txn" /\ target'[w] = target[w]
    BY <1>1, <1>4 DEF GatewayRefuses, OpenInv, Opening, Created, Goto, TypeOK
  <2>2. Rows' = Rows /\ \A s \in Payment : Waiting(s)' = Waiting(s)
    BY <2>1 DEF Rows, Waiting, PendingOf, RowsOf
  <2>3. \A r \in Rows : txns[r].sub \in Payment
    BY <1>1 DEF RowInv, Created
  <2>4. WaitInv'
    BY <1>1, <2>1, <2>2, <2>3 DEF WaitInv, TypeOK
  <2>5. ASSUME NEW s \in Payment, s # target[w], ~ Halved(s), Halved(s)'
        PROVE  \E v \in Worker : pc[v] = "mark_txn" /\ target[v] = s /\ Crash(v)
    <3>1. status[s] = "failed" /\ Waiting(s) # {}
      BY <1>1, <2>1, <2>2, <2>5 DEF Halved, TypeOK
    <3>2. Marked(s) /\ ~ Marked(s)'
      BY <2>5, <3>1 DEF Halved, Marked
    <3>3. PICK v \in Worker : pc[v] = "mark_txn" /\ target[v] = s /\ (MarkTxnFailed(v) \/ Crash(v))
      BY <3>2, MarkedStays
    <3>4. ~ MarkTxnFailed(v)
      BY <1>1, <1>4, <3>3 DEF MarkTxnFailed, GatewayRefuses, Goto, TypeOK
    <3>5. QED
      BY <3>3, <3>4
  <2>6. \A s \in Payment : s = target[w] => ~ Halved(s)'
    BY <2>1 DEF Halved
  <2>7. QED
    BY <2>4, <2>5, <2>6 DEF HalvesStep
<1>5. ASSUME NEW w \in Worker, MarkTxnFailed(w) PROVE WaitInv' /\ HalvesStep
  <2>1. /\ Rows' = Rows
        /\ \A r \in Rows : txns'[r].sub = txns[r].sub /\ txns'[r].tid = txns[r].tid
        /\ \A r \in Rows : txns'[r].state = txns[r].state \/ txns'[r].state = "failed"
        /\ status' = status
    BY <1>5, MarkedRows DEF MarkTxnFailed
  <2>2. WaitInv'
    BY <2>1 DEF WaitInv
  <2>3. \A s \in Payment : Waiting(s)' \subseteq Waiting(s)
    BY <2>1 DEF Waiting, PendingOf, RowsOf
  <2>4. QED
    BY <2>1, <2>2, <2>3, HalvesFrame
<1>6. ASSUME NEW w \in Worker, NEW r \in TxnPk, RecordFailure(w, r) PROVE WaitInv' /\ HalvesStep
  <2>1. /\ target[w] \in Payment /\ pc[w] \in Critical /\ RowToWrite(target[w], event[w], r)
        /\ ~ Settled(event[w], target[w]) /\ WriteResult(w, r, "failed")
        /\ status' = [status EXCEPT ![target[w]] = StatusAfterFailure(target[w])]
    BY <1>1, <1>6 DEF RecordFailure, EventInv, Critical, Busy
  <2>2. /\ \A s \in Payment : s # target[w] => status'[s] = status[s]
        /\ status'[target[w]] # "pending"
        /\ status'[target[w]] = "failed" => status[target[w]] \in {"failed", "pending"}
    BY <1>1, <2>1 DEF StatusAfterFailure, TypeOK
  <2>3. /\ WaitInv' /\ \A s \in Payment : Waiting(s)' \subseteq Waiting(s)
        /\ \A s \in Payment : s = target[w] /\ status[s] = "pending" => Waiting(s)' = {}
    BY <2>1, <2>2, WaitWritten
  <2>4. QED
    BY <2>2, <2>3, HalvesFrame
<1>7. ASSUME NEW w \in Worker, NEW r \in TxnPk, CommitGrant(w, r) PROVE WaitInv' /\ HalvesStep
  <2>1. /\ target[w] \in Payment /\ pc[w] \in Critical /\ RowToWrite(target[w], event[w], r)
        /\ ~ Settled(event[w], target[w]) /\ WriteResult(w, r, "completed")
        /\ status' = [status EXCEPT ![target[w]] = "completed"]
    BY <1>1, <1>7 DEF CommitGrant, Completed, EventInv, GrantInv, Critical, Busy
  <2>2. /\ \A s \in Payment : s # target[w] => status'[s] = status[s]
        /\ status'[target[w]] = "completed"
    BY <1>1, <2>1 DEF TypeOK
  <2>3. WaitInv' /\ \A s \in Payment : Waiting(s)' \subseteq Waiting(s)
    BY <2>1, <2>2, WaitWritten
  <2>4. QED
    BY <2>2, <2>3, HalvesFrame
<1>8. CASE GatewayNext \/ UNCHANGED vars \/ \E q \in Payment : Age(q)
  BY <1>2, <1>8, GatewayFrame DEF Age, vars, table
<1>9. ASSUME NEW w \in Worker,
             \/ GatewayAccepts(w) \/ LockPayment(w) \/ RollBack(w) \/ Crash(w)
             \/ ReconcileStep(w)
             \/ \E r \in TxnPk : Discard(w, r) \/ BeginGrant(w, r)
             \/ \E u \in TxnId, q \in Payment : Deliver(w, u, q)
      PROVE  UNCHANGED <<status, txns>>
  BY <1>9 DEF GatewayAccepts, LockPayment, RollBack, Crash, ReconcileStep, Discard,
       BeginGrant, Deliver, BeginReconcile, AskFinal, AskNotFinal, AskFails, Leave, table
<1>10. QED
  BY <1>2, <1>3, <1>4, <1>5, <1>6, <1>7, <1>8, <1>9 DEF Next, InitiateStep, ProcessStep

\* No callback halves a payment, however late or often it comes; only the death of a request
\* between the two saves of _mark_failed does.
THEOREM HalvedByCrash == Spec => HalvesOnlyByCrash
<1>1. Init => WaitInv
  BY DEF Init, WaitInv, Rows, Absent
<1>2. IInv /\ WaitInv /\ [Next]_vars =>
        [\A s \in Payment : ~ Halved(s) /\ Halved(s)' =>
           \E w \in Worker : pc[w] = "mark_txn" /\ target[w] = s /\ Crash(w)]_vars
  BY WaitStep DEF HalvesStep
<1>3. IInv /\ WaitInv /\ [Next]_vars => WaitInv'
  BY WaitStep
<1>4. QED
  BY <1>1, <1>2, <1>3, Invariance, PTL DEF Spec, HalvesOnlyByCrash

-----------------------------------------------------------------------------
(* Payments implements PaidPeriods.                                        *)

\* The amount due for a payment does not change once the customer can pay it.
LEMMA AmountsStay ==
  ASSUME IInv, [Next]_vars, NEW s \in Payment, reference[s], NEW a
  PROVE  AmountDue(s, a)' <=> AmountDue(s, a)
<1>1. TypeOK /\ OpenInv /\ GrantInv /\ RowInv
  BY DEF IInv, Workers, Records
<1>2. ASSUME UNCHANGED txns PROVE AmountDue(s, a)' <=> AmountDue(s, a)
  BY <1>2 DEF AmountDue, RowsOf, Rows
<1>3. ASSUME NEW w \in Worker, NEW q \in Payment, NEW r \in TxnPk, NEW b \in Amount,
             Initiate(w, q, r, b)
      PROVE  AmountDue(s, a)' <=> AmountDue(s, a)
  <2>1. q # s
    BY <1>1, <1>3 DEF Initiate, NextKey, OpenInv
  <2>2. /\ Rows' = Rows \cup {r} /\ r \notin Rows
        /\ \A p \in Rows : txns'[p] = txns[p]
        /\ txns'[r].sub = q
    BY <1>1, <1>3 DEF Initiate, NextKey, Rows, TypeOK, NewTxn
  <2>3. QED
    BY <2>1, <2>2 DEF AmountDue, RowsOf
<1>4. ASSUME NEW w \in Worker, MarkTxnFailed(w)
      PROVE  AmountDue(s, a)' <=> AmountDue(s, a)
  BY <1>4, MarkedRows DEF AmountDue, RowsOf
<1>5. ASSUME NEW w \in Worker, NEW r \in TxnPk, RecordFailure(w, r) \/ CommitGrant(w, r)
      PROVE  AmountDue(s, a)' <=> AmountDue(s, a)
  <2>1. \E state \in {"completed", "failed"} :
           WriteResult(w, r, state) /\ RowToWrite(target[w], event[w], r)
           /\ ~ Settled(event[w], target[w]) /\ pc[w] \in Critical
    BY <1>1, <1>5 DEF RecordFailure, CommitGrant, Completed, GrantInv, Critical
  <2>2. /\ r \in Rows => txns[r].sub = target[w]
        /\ \E q \in Rows : txns[q].sub = target[w]
        /\ Rows' = Rows \cup {r}
        /\ \A q \in TxnPk \ {r} : txns'[q] = txns[q]
        /\ txns'[r].sub = target[w]
        /\ \A q \in Rows : txns[q].sub = target[w] => txns[q].amount = txns'[r].amount
    BY <2>1, WrittenRow
  <2>3. Rows \subseteq TxnPk
    BY DEF Rows
  <2>4. QED
    BY <2>2, <2>3 DEF AmountDue, RowsOf
<1>6. CASE GatewayNext \/ UNCHANGED vars \/ \E q \in Payment : Age(q)
  BY <1>2, <1>6, GatewayFrame DEF Age, vars, table
<1>7. ASSUME NEW w \in Worker,
             \/ GatewayAccepts(w) \/ GatewayRefuses(w) \/ LockPayment(w) \/ RollBack(w)
             \/ Crash(w) \/ ReconcileStep(w)
             \/ \E r \in TxnPk : Discard(w, r) \/ BeginGrant(w, r)
             \/ \E u \in TxnId, q \in Payment : Deliver(w, u, q)
      PROVE  UNCHANGED txns
  BY <1>7 DEF GatewayAccepts, GatewayRefuses, LockPayment, RollBack, Crash, ReconcileStep,
       Discard, BeginGrant, Deliver, BeginReconcile, AskFinal, AskNotFinal, AskFails, Leave, table
<1>8. QED
  BY <1>2, <1>3, <1>4, <1>5, <1>6, <1>7 DEF Next, InitiateStep, ProcessStep

\* A payment becomes charged only when the gateway decides a transaction of its
\* order, and stays charged.
LEMMA ChargedStep ==
  ASSUME IInv, [Next]_vars
  PROVE  /\ \A s \in Charged : s \in Charged'
         /\ \A s \in Charged' \ Charged : \E t \in TxnId :
              attempt[t].state = "open" /\ Succeeded(t)' /\ attempt'[t].order = s
<1>1. TypeOK /\ OpenInv
  BY DEF IInv, Workers
<1>2. ASSUME NEW t \in TxnId, attempt[t].state # "none"
      PROVE  /\ attempt'[t].order = attempt[t].order /\ attempt'[t].amount = attempt[t].amount
             /\ attempt'[t].state # "none"
             /\ Succeeded(t) => Succeeded(t)'
             /\ attempt[t].state = "failed" => attempt'[t].state = "failed"
  BY <1>1, <1>2, OnlyGateway, AttemptsKept
<1>3. ASSUME NEW s \in Charged PROVE s \in Charged'
  <2>1. PICK t \in AttemptsOf(s) : Succeeded(t) /\ AmountDue(s, attempt[t].amount)
    BY DEF Charged
  <2>2. s \in Payment /\ reference[s]
    BY <1>1, <2>1, NoneIsNothing DEF Charged, AttemptsOf, OpenInv
  <2>3. t \in AttemptsOf(s)' /\ Succeeded(t)' /\ attempt'[t].amount = attempt[t].amount
    BY <1>2, <2>1 DEF AttemptsOf
  <2>4. PICK a : a = attempt[t].amount
    OBVIOUS
  <2>5. AmountDue(s, a)'
    BY <2>1, <2>2, <2>4, AmountsStay
  <2>6. QED
    BY <2>2, <2>3, <2>4, <2>5 DEF Charged, AmountDue
<1>4. ASSUME NEW s \in Charged', s \notin Charged
      PROVE  \E t \in TxnId : attempt[t].state = "open" /\ Succeeded(t)' /\ attempt'[t].order = s
  <2>1. PICK t \in TxnId : /\ attempt'[t].state # "none" /\ attempt'[t].order = s
                           /\ Succeeded(t)' /\ AmountDue(s, attempt[t].amount)'
    BY DEF Charged, AttemptsOf
  <2>2. s \in Payment
    BY DEF Charged
  <2>3. attempt[t].state # "none"
    <3>1. SUFFICES ASSUME attempt[t].state = "none" PROVE FALSE
      OBVIOUS
    <3>2. GatewayNext
      BY <2>1, <3>1, OnlyGateway
    <3>3. \A u \in TxnId, result \in {"success", "failed"} : Decide(u, result) => u # t
      BY <3>1 DEF Decide
    <3>4. \A u \in TxnId : Reverse(u) => u # t
      BY <3>1 DEF Reverse
    <3>5. ASSUME NEW u \in TxnId, u # t,
                 Reverse(u) \/ \E result \in {"success", "failed"} : Decide(u, result)
          PROVE  attempt'[t] = attempt[t]
      BY <1>1, <3>5, Zenon DEF Reverse, Decide, TypeOK
    <3>6. ASSUME NEW u \in TxnId, NEW order \in Payment \cup {None}, NEW a \in Amount,
                 NewAttempt(u, order, a)
          PROVE  attempt'[t] = attempt[t] \/ attempt'[t].state = "open"
      BY <1>1, <3>6 DEF NewAttempt, TypeOK
    <3>7. QED
      BY <2>1, <3>1, <3>2, <3>3, <3>4, <3>5, <3>6 DEF GatewayNext, Succeeded
  <2>4. attempt[t].order = s /\ attempt'[t].amount = attempt[t].amount
    BY <1>2, <2>1, <2>3
  <2>5. reference[s]
    BY <1>1, <2>2, <2>3, <2>4, NoneIsNothing DEF OpenInv
  <2>6. PICK a : a = attempt[t].amount
    OBVIOUS
  <2>7. AmountDue(s, a)'
    BY <2>1, <2>4, <2>6 DEF AmountDue
  <2>8. AmountDue(s, attempt[t].amount)
    BY <2>2, <2>5, <2>6, <2>7, AmountsStay
  <2>9. ~ Succeeded(t)
    BY <2>2, <2>3, <2>4, <2>8, <1>4 DEF Charged, AttemptsOf
  <2>10. attempt[t].state # "failed"
    BY <1>2, <2>1, <2>3 DEF Succeeded
  <2>11. attempt[t].state = "open"
    BY <1>1, <2>3, <2>9, <2>10 DEF TypeOK, Attempt, NoAttempt, Succeeded
  <2>12. QED
    BY <2>1, <2>11
<1>5. QED
  BY <1>3, <1>4

\* A step of the gateway charges one payment or none.
LEMMA ChargeOne ==
  ASSUME IInv, GatewayNext
  PROVE  \/ Charged' = Charged
         \/ \E s \in Payment : s \notin Charged /\ Charged' = Charged \cup {s}
<1>1. TypeOK /\ [Next]_vars
  BY DEF IInv, Next
<1>2. ASSUME NEW t \in TxnId, NEW u \in TxnId, t # u,
             attempt[t].state = "open", Succeeded(t)', attempt[u].state = "open", Succeeded(u)'
      PROVE  FALSE
  <2>1. attempt'[t] # attempt[t] /\ attempt'[u] # attempt[u]
    BY <1>2 DEF Succeeded
  <2>2. ASSUME NEW x \in TxnId, Reverse(x) \/ \E result \in {"success", "failed"} : Decide(x, result)
        PROVE  \A y \in TxnId \ {x} : attempt'[y] = attempt[y]
    BY <1>1, <2>2, Zenon DEF Reverse, Decide, TypeOK
  <2>3. ASSUME NEW x \in TxnId, NEW order \in Payment \cup {None}, NEW a \in Amount,
               NewAttempt(x, order, a)
        PROVE  \A y \in TxnId \ {x} : attempt'[y] = attempt[y]
    BY <1>1, <2>3 DEF NewAttempt, TypeOK
  <2>4. QED
    BY <1>2, <2>1, <2>2, <2>3 DEF GatewayNext
<1>3. \A s, q \in Charged' \ Charged : s = q
  BY <1>1, <1>2, ChargedStep
<1>4. Charged' \subseteq Payment
  BY DEF Charged
<1>5. QED
  BY <1>1, <1>3, <1>4, ChargedStep

\* The app promises, and keeps: one period per payment, and only for the full
\* amount (every step maps to a step of PaidPeriods or to a stutter).
THEOREM PromiseKept == Spec => KeepsPromise
<1>1. Init => Promise!Init
  BY DEF Init, Promise!Init, Charged, AttemptsOf, NoAttempt
<1>2. IInv /\ [Next]_vars => [Promise!Next]_<<Charged, grants>>
  <2> SUFFICES ASSUME IInv, [Next]_vars
               PROVE  Promise!Next \/ UNCHANGED <<Charged, grants>>
    OBVIOUS
  <2>1. TypeOK /\ EventInv /\ GrantInv /\ OnePeriodPerPayment
    BY DEF IInv, Workers, Records
  <2>2. CASE GatewayNext
    <3>1. UNCHANGED grants
      BY <2>2, GatewayFrame DEF table
    <3>2. CASE Charged' = Charged
      BY <3>1, <3>2
    <3>3. ASSUME NEW s \in Payment, s \notin Charged, Charged' = Charged \cup {s}
          PROVE  Promise!Next
      BY <3>1, <3>3 DEF Promise!Next, Promise!Charge
    <3>4. QED
      BY <2>2, <3>2, <3>3, ChargeOne
  <2>3. CASE ~ GatewayNext
    <3>1. UNCHANGED attempt
      BY <2>3, OnlyGateway
    <3>2. Charged' = Charged
      <4>1. \A t \in TxnId : ~ (attempt[t].state = "open" /\ Succeeded(t)')
        BY <3>1 DEF Succeeded
      <4>2. QED
        BY <4>1, ChargedStep
    <3>3. ASSUME NEW w \in Worker, NEW r \in TxnPk, CommitGrant(w, r)
          PROVE  Promise!Next
      <4>1. /\ target[w] \in Payment /\ event[w] \in TxnId
            /\ event[w] \in AttemptsOf(target[w]) /\ Succeeded(event[w])
            /\ AmountDue(target[w], attempt[event[w]].amount)
            /\ status[target[w]] # "completed"
        BY <2>1, <3>3 DEF CommitGrant, EventInv, GrantInv, Busy, AttemptsOf, Succeeded
      <4>2. target[w] \in Charged /\ grants[target[w]] = 0
        BY <2>1, <4>1 DEF Charged, OnePeriodPerPayment
      <4>3. grants' = [grants EXCEPT ![target[w]] = 1]
        BY <2>1, <3>3, <4>1, <4>2 DEF CommitGrant, TypeOK
      <4>4. Promise!Grant(target[w])
        BY <3>2, <4>2, <4>3 DEF Promise!Grant
      <4>5. QED
        BY <4>1, <4>4 DEF Promise!Next
    <3>4. CASE UNCHANGED vars \/ \E q \in Payment : Age(q)
      BY <3>2, <3>4 DEF Age, vars, table
    <3>5. ASSUME NEW w \in Worker,
                 \/ InitiateStep(w) \/ LockPayment(w) \/ RollBack(w) \/ Crash(w)
                 \/ ReconcileStep(w)
                 \/ \E r \in TxnPk : Discard(w, r) \/ BeginGrant(w, r) \/ RecordFailure(w, r)
                 \/ \E u \in TxnId, q \in Payment : Deliver(w, u, q)
          PROVE  UNCHANGED grants
      BY <3>5 DEF InitiateStep, Initiate, GatewayAccepts, GatewayRefuses, MarkTxnFailed,
         LockPayment, RollBack, Crash, ReconcileStep, Discard, BeginGrant, RecordFailure,
         Deliver, BeginReconcile, AskFinal, AskNotFinal, AskFails, Leave, table
    <3>6. QED
      BY <2>3, <3>2, <3>3, <3>4, <3>5 DEF Next, ProcessStep
  <2>4. QED
    BY <2>2, <2>3
<1>3. QED
  BY <1>1, <1>2, Invariance, PTL DEF Spec, KeepsPromise, Promise!Spec

=============================================================================
