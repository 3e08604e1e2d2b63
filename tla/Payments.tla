------------------------------ MODULE Payments ------------------------------
(***************************************************************************)
(* The payments app: starting a payment (payments/services.py), the        *)
(* gateway's callbacks (payments/webhooks.py) and the daily reconciliation *)
(* (payments/tasks.py) that asks the gateway about payments whose callback *)
(* never arrived.                                                          *)
(*                                                                         *)
(* The gateway is external: it delivers a callback late, twice, out of     *)
(* order or never.  A callback is identified by the transaction it reports *)
(* (an attempt, once decided, keeps its result), so delivering one is a    *)
(* step of the process that serves it.  Callbacks about undecided or       *)
(* reversed transactions change nothing and are left out.                  *)
(***************************************************************************)
EXTENDS Integers, FiniteSets

CONSTANTS
  Payment,  \* primary keys of payments.Subscription rows
  TxnPk,    \* primary keys of payments.Transaction rows
  TxnId,    \* transaction ids of the gateway, in the order it issues them
  Amount,   \* amounts with their currency
  Web,      \* processes that serve HTTP requests
  Celery,   \* processes that run the reconciliation task
  None      \* no process, payment, transaction id

Worker == Web \cup Celery

ASSUME KeysAreNumbers ==
  Payment \subseteq Nat /\ TxnPk \subseteq Nat /\ TxnId \subseteq Nat
ASSUME NoneIsNothing ==
  None \notin Worker /\ None \notin Payment /\ None \notin TxnId
ASSUME ProcessesDistinct == Web \cap Celery = {}

VARIABLES
  status,     \* Subscription.status, or "absent"
  reference,  \* Subscription.gateway_reference is set
  aged,       \* payments older than RECONCILIATION_GRACE_PERIOD
  txns,       \* the Transaction table
  grants,     \* committed calls of activate_subscription for the payment
  lock,       \* who holds the row lock of a Subscription (FOR UPDATE)
  attempt,    \* the gateway's transactions
  pc,         \* where each process is
  target,     \* the payment the process works on
  event,      \* the transaction whose result the process applies
  todo        \* payments the reconciliation has still to ask about

table == <<status, reference, aged, txns, grants>>
local == <<pc, target, event, todo>>
vars == <<table, lock, attempt, local>>

Absent == [state |-> "absent"]
Row == [state : {"pending", "completed", "failed"}, sub : Payment,
        tid : TxnId \cup {None}, amount : Amount]

NoAttempt == [state |-> "none"]
Attempt == [state : {"open", "success", "failed", "reversed"},
            order : Payment \cup {None}, amount : Amount]

TypeOK ==
  /\ status \in [Payment -> {"absent", "pending", "completed", "failed"}]
  /\ reference \in [Payment -> BOOLEAN]
  /\ aged \subseteq Payment
  /\ txns \in [TxnPk -> Row \cup {Absent}]
  /\ grants \in [Payment -> Nat]
  /\ lock \in [Payment -> Worker \cup {None}]
  /\ attempt \in [TxnId -> Attempt \cup {NoAttempt}]
  /\ pc \in [Worker -> {"idle", "initiate", "mark_txn", "wait", "locked",
                        "activate", "batch"}]
  /\ target \in [Worker -> Payment \cup {None}]
  /\ event \in [Worker -> TxnId \cup {None}]
  /\ todo \in [Worker -> SUBSET Payment]

Init ==
  /\ status = [s \in Payment |-> "absent"]
  /\ reference = [s \in Payment |-> FALSE]
  /\ aged = {}
  /\ txns = [r \in TxnPk |-> Absent]
  /\ grants = [s \in Payment |-> 0]
  /\ lock = [s \in Payment |-> None]
  /\ attempt = [t \in TxnId |-> NoAttempt]
  /\ pc = [w \in Worker |-> "idle"]
  /\ target = [w \in Worker |-> None]
  /\ event = [w \in Worker |-> None]
  /\ todo = [w \in Worker |-> {}]

Created == {s \in Payment : status[s] # "absent"}
Rows == {r \in TxnPk : txns[r].state # "absent"}
RowsOf(s) == {r \in Rows : txns[r].sub = s}
PendingOf(s) == {r \in RowsOf(s) : txns[r].state = "pending"}

Goto(w, step) == pc' = [pc EXCEPT ![w] = step]

\* The next value of a table's key sequence.
NextKey(k, keys, used) == k \notin used /\ \A j \in keys : j < k => j \in used

Unlocked(w) == [s \in Payment |-> IF lock[s] = w THEN None ELSE lock[s]]

-----------------------------------------------------------------------------
(* The gateway (external).  A customer sent to the payment page makes any  *)
(* number of attempts; transactions of other orders exist as well.         *)

NewAttempt(t, order, amount) ==
  /\ NextKey(t, TxnId, {u \in TxnId : attempt[u].state # "none"})
  /\ order \in {None} \cup {s \in Payment : reference[s]}
  /\ attempt' = [attempt EXCEPT
       ![t] = [state |-> "open", order |-> order, amount |-> amount]]
  /\ UNCHANGED <<table, lock, local>>

Decide(t, result) ==
  /\ attempt[t].state = "open"
  /\ attempt' = [attempt EXCEPT ![t].state = result]
  /\ UNCHANGED <<table, lock, local>>

\* A successful transaction is voided or refunded.
Reverse(t) ==
  /\ attempt[t].state = "success"
  /\ attempt' = [attempt EXCEPT ![t].state = "reversed"]
  /\ UNCHANGED <<table, lock, local>>

Succeeded(t) == attempt[t].state \in {"success", "reversed"}
Decided(t) == Succeeded(t) \/ attempt[t].state = "failed"

AttemptsOf(s) == {t \in TxnId : attempt[t].state # "none" /\ attempt[t].order = s}
Latest(t, s) == t \in AttemptsOf(s) /\ \A u \in AttemptsOf(s) : u <= t

-----------------------------------------------------------------------------
(* initiate_subscription_payment.                                          *)

NewTxn(s, t, amount, state) ==
  [state |-> state, sub |-> s, tid |-> t, amount |-> amount]

\* Both rows in one transaction; the amount is a snapshot of the plan's price.
Initiate(w, s, r, amount) ==
  /\ pc[w] = "idle" /\ w \in Web
  /\ NextKey(s, Payment, Created)
  /\ NextKey(r, TxnPk, Rows)
  /\ status' = [status EXCEPT ![s] = "pending"]
  /\ txns' = [txns EXCEPT ![r] = NewTxn(s, None, amount, "pending")]
  /\ target' = [target EXCEPT ![w] = s]
  /\ Goto(w, "initiate")
  /\ UNCHANGED <<reference, aged, grants, lock, attempt, event, todo>>

\* The gateway answered: gateway_reference is saved, the customer gets the URL.
GatewayAccepts(w) ==
  /\ pc[w] = "initiate"
  /\ lock[target[w]] = None
  /\ reference' = [reference EXCEPT ![target[w]] = TRUE]
  /\ target' = [target EXCEPT ![w] = None]
  /\ Goto(w, "idle")
  /\ UNCHANGED <<status, aged, txns, grants, lock, attempt, event, todo>>

\* PaymentGatewayError or an unusable answer: _mark_failed, whose two saves are
\* two transactions.
GatewayRefuses(w) ==
  /\ pc[w] = "initiate"
  /\ lock[target[w]] = None
  /\ status' = [status EXCEPT ![target[w]] = "failed"]
  /\ Goto(w, "mark_txn")
  /\ UNCHANGED <<reference, aged, txns, grants, lock, attempt, target, event, todo>>

MarkTxnFailed(w) ==
  /\ pc[w] = "mark_txn"
  /\ txns' = [r \in TxnPk |-> IF r \in RowsOf(target[w])
                                THEN [txns[r] EXCEPT !.state = "failed"] ELSE txns[r]]
  /\ target' = [target EXCEPT ![w] = None]
  /\ Goto(w, "idle")
  /\ UNCHANGED <<status, reference, aged, grants, lock, attempt, event, todo>>

-----------------------------------------------------------------------------
(* process_webhook_event, run for a callback or by the reconciliation.     *)

RowsFor(t) == {r \in Rows : txns[r].tid = t}

\* _resolve_subscription_id: by the transaction id, else by the order (its id
\* is the gateway_reference, its merchant reference names the primary key).
Resolve(t, s) ==
  IF RowsFor(t) # {} THEN \E r \in RowsFor(t) : s = txns[r].sub
  ELSE s = attempt[t].order /\ s \in Created

\* A process that has applied a result goes on with its batch, if it has one.
Finish(w) ==
  /\ target' = [target EXCEPT ![w] = None]
  /\ event' = [event EXCEPT ![w] = None]
  /\ Goto(w, IF todo[w] = {} THEN "idle" ELSE "batch")

\* A signature-verified callback; one that matches no payment is acknowledged
\* and changes nothing.
Deliver(w, t, s) ==
  /\ pc[w] = "idle" /\ w \in Web
  /\ Decided(t)
  /\ Resolve(t, s)
  /\ event' = [event EXCEPT ![w] = t]
  /\ target' = [target EXCEPT ![w] = s]
  /\ Goto(w, "wait")
  /\ UNCHANGED <<table, lock, attempt, todo>>

\* Faulty: get() without select_for_update.
FreeUnchecked(s) == TRUE

Free(s) == lock[s] = None

\* select_for_update on the payment.
LockPayment(w) ==
  /\ pc[w] = "wait"
  /\ Free(target[w])
  /\ lock' = [lock EXCEPT ![target[w]] = w]
  /\ Goto(w, "locked")
  /\ UNCHANGED <<table, attempt, target, event, todo>>

\* The pending row the initiation created, oldest first.
Waiting(s) == {r \in PendingOf(s) : txns[r].tid = None}

\* Faulty: only a NULL row is looked for; a transaction seen before gets one more.
RowToWriteForgetsId(s, t, r) ==
  IF Waiting(s) # {} THEN r \in Waiting(s) /\ \A q \in Waiting(s) : r <= q
  ELSE NextKey(r, TxnPk, Rows)

\* Faulty: the row of the initiation is left as it is.
RowToWriteAlwaysNew(s, t, r) ==
  IF RowsFor(t) # {} THEN r \in RowsFor(t) ELSE NextKey(r, TxnPk, Rows)

\* The row a result of transaction t is written to: its own, else the pending
\* one, else a new one.
RowToWrite(s, t, r) ==
  IF RowsFor(t) # {} THEN r \in RowsFor(t)
  ELSE IF Waiting(s) # {} THEN r \in Waiting(s) /\ \A q \in Waiting(s) : r <= q
  ELSE NextKey(r, TxnPk, Rows)

\* a is what that row says was to be paid; a new row copies the amount of the
\* payment's latest row.
Expected(s, r, a) ==
  \E q \in RowsOf(s) :
    /\ a = txns[q].amount
    /\ IF r \in Rows THEN q = r ELSE \A p \in RowsOf(s) : p <= q

\* OUTCOME_DUPLICATE, or a transaction known for another payment.
Settled(t, s) ==
  \E r \in RowsFor(t) : txns[r].state = "completed" \/ txns[r].sub # s

\* Faulty: the amount is not compared.
MayGrantAnyAmount(t, s, r) == status[s] # "completed"

\* A success activates unless the amount differs (OUTCOME_REJECTED) or another
\* transaction has completed the payment (OUTCOME_IGNORED).
MayGrant(t, s, r) == Expected(s, r, attempt[t].amount) /\ status[s] # "completed"

\* Nothing is written: duplicate, rejected, ignored.
Discard(w, r) ==
  /\ pc[w] = "locked"
  /\ RowToWrite(target[w], event[w], r)
  /\ Settled(event[w], target[w]) \/ Succeeded(event[w])
  /\ Settled(event[w], target[w]) \/ ~ MayGrant(event[w], target[w], r)
  /\ lock' = Unlocked(w)
  /\ Finish(w)
  /\ UNCHANGED <<table, attempt, todo>>

WriteResult(w, r, state) ==
  \E a \in Amount :
    /\ Expected(target[w], r, a)
    /\ txns' = [txns EXCEPT ![r] = NewTxn(target[w], event[w], a, state)]

\* Faulty: the word of the gateway is stored.
StatusAfterFailureRaw(s) == "declined"

\* Faulty: a late failure also overrides a payment already completed.
StatusAfterFailureAlways(s) == "failed"

StatusAfterFailure(s) == IF status[s] = "pending" THEN "failed" ELSE status[s]

\* OUTCOME_FAILURE_RECORDED: the row and, if still pending, the payment fail.
RecordFailure(w, r) ==
  /\ pc[w] = "locked"
  /\ RowToWrite(target[w], event[w], r)
  /\ ~ Settled(event[w], target[w]) /\ ~ Succeeded(event[w])
  /\ WriteResult(w, r, "failed")
  /\ status' = [status EXCEPT ![target[w]] = StatusAfterFailure(target[w])]
  /\ lock' = Unlocked(w)
  /\ Finish(w)
  /\ UNCHANGED <<reference, aged, grants, attempt, todo>>

\* The row and the payment are written, uncommitted, and activate_subscription
\* is called; it waits for the row of the business.
BeginGrant(w, r) ==
  /\ pc[w] = "locked"
  /\ RowToWrite(target[w], event[w], r)
  /\ ~ Settled(event[w], target[w]) /\ Succeeded(event[w])
  /\ MayGrant(event[w], target[w], r)
  /\ Goto(w, "activate")
  /\ UNCHANGED <<table, lock, attempt, target, event, todo>>

\* What the transaction has written, visible with its COMMIT.
Completed(w, r) ==
  /\ WriteResult(w, r, "completed")
  /\ status' = [status EXCEPT ![target[w]] = "completed"]

\* activate_subscription returned: COMMIT of both rows and the new period.
CommitGrant(w, r) ==
  /\ pc[w] = "activate"
  /\ RowToWrite(target[w], event[w], r)
  /\ Completed(w, r)
  /\ grants' = [grants EXCEPT ![target[w]] = @ + 1]
  /\ lock' = Unlocked(w)
  /\ Finish(w)
  /\ UNCHANGED <<reference, aged, attempt, todo>>

\* activate_subscription raised: everything is rolled back.  A callback is
\* answered with 500, the reconciliation goes on with the next payment.
RollBack(w) ==
  /\ pc[w] = "activate"
  /\ lock' = Unlocked(w)
  /\ Finish(w)
  /\ UNCHANGED <<table, attempt, todo>>

-----------------------------------------------------------------------------
(* reconcile_pending_transactions.                                         *)

\* RECONCILIATION_GRACE_PERIOD passes.
Age(s) ==
  /\ s \in Created \ aged
  /\ aged' = aged \cup {s}
  /\ UNCHANGED <<status, reference, txns, grants, lock, attempt, local>>

\* Faulty: created_at__gte, the young payments instead of the old ones.
StuckYoung(s) == s \notin aged /\ status[s] = "pending" /\ PendingOf(s) # {}

\* _pending_subscriptions: both the transaction and the payment are pending,
\* and the transaction is old enough.
Stuck(s) == s \in aged /\ status[s] = "pending" /\ PendingOf(s) # {}

BeginReconcile(w) ==
  /\ pc[w] = "idle" /\ w \in Celery
  /\ \E s \in Payment : Stuck(s)
  /\ todo' = [todo EXCEPT ![w] = {s \in Payment : Stuck(s)}]
  /\ Goto(w, "batch")
  /\ UNCHANGED <<table, lock, attempt, target, event>>

\* The oldest first.
NextToAsk(w, s) == pc[w] = "batch" /\ s \in todo[w] /\ \A q \in todo[w] : s <= q

\* The gateway knows a final, unreversed result: it is applied like a callback.
AskFinal(w, s, t) ==
  /\ NextToAsk(w, s)
  /\ Latest(t, s) /\ attempt[t].state \in {"success", "failed"}
  /\ todo' = [todo EXCEPT ![w] = @ \ {s}]
  /\ event' = [event EXCEPT ![w] = t]
  /\ \E q \in Payment : Resolve(t, q) /\ target' = [target EXCEPT ![w] = q]
  /\ Goto(w, "wait")
  /\ UNCHANGED <<table, lock, attempt>>

Leave(w, s) ==
  /\ todo' = [todo EXCEPT ![w] = @ \ {s}]
  /\ Goto(w, IF todo[w] = {s} THEN "idle" ELSE "batch")
  /\ UNCHANGED <<table, lock, attempt, target, event>>

\* The gateway knows no transaction, or none that is final.
AskNotFinal(w, s) ==
  /\ NextToAsk(w, s)
  /\ \A t \in TxnId : Latest(t, s) => attempt[t].state \in {"open", "reversed"}
  /\ Leave(w, s)

\* PaymentGatewayError: left for the next run.
AskFails(w, s) == NextToAsk(w, s) /\ Leave(w, s)

-----------------------------------------------------------------------------
\* The process dies or loses its connection: the open transaction is rolled
\* back, its locks are released, the rest of the batch is forgotten.
Crash(w) ==
  /\ pc[w] # "idle"
  /\ lock' = Unlocked(w)
  /\ target' = [target EXCEPT ![w] = None]
  /\ event' = [event EXCEPT ![w] = None]
  /\ todo' = [todo EXCEPT ![w] = {}]
  /\ Goto(w, "idle")
  /\ UNCHANGED <<table, attempt>>

GatewayNext ==
  \E t \in TxnId :
    \/ \E order \in Payment \cup {None}, a \in Amount : NewAttempt(t, order, a)
    \/ \E result \in {"success", "failed"} : Decide(t, result)
    \/ Reverse(t)

InitiateStep(w) ==
  \/ \E s \in Payment, r \in TxnPk, a \in Amount : Initiate(w, s, r, a)
  \/ GatewayAccepts(w)
  \/ GatewayRefuses(w)
  \/ MarkTxnFailed(w)

ProcessStep(w) ==
  \/ LockPayment(w)
  \/ \E r \in TxnPk :
       Discard(w, r) \/ RecordFailure(w, r) \/ BeginGrant(w, r) \/ CommitGrant(w, r)
  \/ RollBack(w)

ReconcileStep(w) ==
  \/ BeginReconcile(w)
  \/ \E s \in Payment :
       \/ \E t \in TxnId : AskFinal(w, s, t)
       \/ AskNotFinal(w, s)
       \/ AskFails(w, s)

Next ==
  \/ GatewayNext
  \/ \E w \in Worker :
       \/ InitiateStep(w)
       \/ \E t \in TxnId, s \in Payment : Deliver(w, t, s)
       \/ ProcessStep(w)
       \/ ReconcileStep(w)
       \/ Crash(w)
  \/ \E s \in Payment : Age(s)

Spec == Init /\ [][Next]_vars

-----------------------------------------------------------------------------
(* Properties.                                                             *)

AmountDue(s, a) == \E r \in RowsOf(s) : txns[r].amount = a

\* Payments of which the gateway has taken the full amount at some time.
Charged == {s \in Payment : \E t \in AttemptsOf(s) :
                               Succeeded(t) /\ AmountDue(s, attempt[t].amount)}

CompletedOf(s) == {r \in RowsOf(s) : txns[r].state = "completed"}

\* A payment buys exactly one period, and its records say so: it is completed
\* precisely when activate_subscription has been committed for it once, and
\* then exactly one of its transactions is completed.
OnePeriodPerPayment ==
  \A s \in Payment :
    IF status[s] = "completed"
      THEN grants[s] = 1 /\ \E r \in CompletedOf(s) : CompletedOf(s) = {r}
      ELSE grants[s] = 0 /\ CompletedOf(s) = {}

\* The records agree with the gateway: a row that carries a transaction id
\* belongs to the order the transaction was for, is completed only if the
\* gateway took the row's full amount, and failed only if the gateway said so.
LedgerAgrees ==
  \A r \in Rows : txns[r].tid # None =>
    LET t == txns[r].tid IN
      /\ attempt[t].state # "none" /\ attempt[t].order = txns[r].sub
      /\ txns[r].state \in {"completed", "failed"}
      /\ txns[r].state = "completed" => Succeeded(t) /\ attempt[t].amount = txns[r].amount
      /\ txns[r].state = "failed" => attempt[t].state = "failed"

\* Transaction.transaction_id is unique, so the save in process_webhook_event
\* never runs into the constraint.
TransactionIdsUnique ==
  \A q, r \in Rows : txns[q].tid # None /\ txns[q].tid = txns[r].tid => q = r

\* What is settled stays settled, whatever arrives late, twice or out of order:
\* a completed payment stays completed, and a row that has got its transaction
\* id never changes again.
SettledStays ==
  [][/\ \A s \in Payment : status[s] = "completed" => status'[s] = "completed"
     /\ \A r \in Rows : txns[r].tid # None => txns'[r] = txns[r]]_vars

\* A payment that has failed while the transaction it began with is still pending, and
\* nobody about to mark that one too.
Halved(s) ==
  /\ status[s] = "failed" /\ Waiting(s) # {}
  /\ \A w \in Worker : ~ (pc[w] = "mark_txn" /\ target[w] = s)

\* No callback, whatever it is about and however it is repeated, leaves a payment halved, and
\* a refusal of the gateway fails both rows (payments/services.py:48), unless the request dies
\* between the two saves of _mark_failed: no reconciliation looks at the payment again.
HalvesOnlyByCrash ==
  [][\A s \in Payment : ~ Halved(s) /\ Halved(s)' =>
       \E w \in Worker : pc[w] = "mark_txn" /\ target[w] = s /\ Crash(w)]_vars

Promise == INSTANCE PaidPeriods WITH charged <- Charged, periods <- grants

\* The rows, locks and callbacks together keep the promise of PaidPeriods.
KeepsPromise == Promise!Spec

-----------------------------------------------------------------------------
(* Liveness.  Requests and tasks that are not killed run on, PostgreSQL     *)
(* serves lock waiters in turn, Celery Beat starts the reconciliation every *)
(* day; neither crashes, gateway errors nor failing activations go on for   *)
(* ever.  The gateway owes nobody a callback.                               *)
FairStep(w) ==
  \/ GatewayAccepts(w)
  \/ MarkTxnFailed(w)
  \/ \E r \in TxnPk : Discard(w, r) \/ RecordFailure(w, r) \/ BeginGrant(w, r)
  \/ \E s \in Payment : AskNotFinal(w, s)

\* A last step that leaves behind what a crash would is none.
Killed(w) == Crash(w) /\ ~ (InitiateStep(w) \/ ProcessStep(w) \/ ReconcileStep(w))

Fairness ==
  /\ \A w \in Worker : WF_vars(FairStep(w))
  /\ \A w \in Worker : SF_vars(LockPayment(w))
  /\ \A w \in Worker : SF_vars(\E r \in TxnPk : CommitGrant(w, r))
  /\ \A w \in Celery : SF_vars(BeginReconcile(w))
  /\ \A w \in Celery, s \in Payment : SF_vars(\E t \in TxnId : AskFinal(w, s, t))
  /\ \A s \in Payment : WF_vars(Age(s))
  /\ <>[][\A w \in Worker : ~ Killed(w)]_vars

FairSpec == Spec /\ Fairness

\* The customer has paid: the gateway's latest word on the payment is a success
\* over the right amount.
Paid(s) ==
  \E t \in TxnId : Latest(t, s) /\ attempt[t].state = "success" /\ AmountDue(s, attempt[t].amount)

SomeAttemptFailed(s) == \E t \in AttemptsOf(s) : attempt[t].state = "failed"

Undecided(s) == \E t \in TxnId : Latest(t, s) /\ attempt[t].state = "open"

\* The latest attempt is decided, and the payment is not paid: reversed, or another amount.
TakenBack(s) == ~ Paid(s) /\ \E t \in TxnId : Latest(t, s) /\ attempt[t].state # "open"

\* The safety net: if no later attempt stays undecided for ever, a payment that succeeded
\* and none of whose attempts fails is granted even if every callback is lost, unless the
\* gateway takes it back first.  An attempt that was opened later and abandoned ends the
\* promise: the gateway is asked about the latest only (payments/tasks.py:132-139).
PaidFirstTimeIsGranted ==
  \A s \in Payment :
    []<>~ Undecided(s) =>
      ((Paid(s) /\ ~ SomeAttemptFailed(s)) ~>
        (grants[s] = 1 \/ SomeAttemptFailed(s) \/ TakenBack(s)))

\* "If Paymob's callback never reaches us ... this job is the safety net: it
\* asks the gateway what actually happened to every payment that has been
\* pending too long" (payments/tasks.py), whatever was tried before.
PaidIsGranted ==
  \A s \in Payment : Paid(s) ~> (grants[s] = 1 \/ ~ Paid(s))

=============================================================================
