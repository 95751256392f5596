------------------------------ MODULE Webhooks ------------------------------
(***************************************************************************)
(* POST /webhooks/nomba.  After its signature is checked an event is       *)
(* handled without an await, so the handler owns the loop from Deliver to  *)
(* its commit; only worker threads run in between, and only a row lock can *)
(* hold it up.  hook keeps the event and the rows the handler has read.    *)
(***************************************************************************)
EXTENDS Payout

VARIABLE hook

NoHook == [phase |-> "idle"]

HookRecords ==
  {NoHook} \cup [phase : {"apply", "replay"}, event : Events,
                 status : TxnStatus \cup {"absent"}, bill : BillRow]

WebhookTypeOK == hook \in HookRecords

WebhookInit == hook = NoHook

RefBill(ref) == IF ref \in Reqs THEN bill[ReqBill[ref]] ELSE NoRow

\* Mutant: the requestId is not unique to its event.
DuplicateId(e) == \E s \in seen : s.id = e.id

\* The key is the provider and the requestId.  That the provider never gives two
\* events one requestId is assumed, so a requestId stands for one event here.
Duplicate(e) == e \in seen

\* The webhook_events row is inserted first: a second row of the same event id
\* violates the unique constraint.  Then transaction and bill are read.
Deliver(e) ==
  /\ loop = None /\ Announced(e)
  /\ loop' = Hook
  /\ hook' = [phase |-> IF Duplicate(e) THEN "replay" ELSE "apply", event |-> e,
              status |-> txn[e.ref], bill |-> RefBill(e.ref)]
  /\ UNCHANGED <<tables, rowLocks, now, payoutVars>>

\* The handler returns; the webhook_events row is kept only by a commit.
Finish(eventRows) ==
  /\ seen' = eventRows
  /\ hook' = NoHook
  /\ loop' = None
  /\ UNCHANGED <<rowLocks, now, payoutVars>>

Recorded == seen \cup {hook.event}

RejectReplay ==
  /\ hook.phase = "replay"
  /\ Finish(seen)
  /\ UNCHANGED <<balance, bill, txn>>

Applying(types) == hook.phase = "apply" /\ hook.event.type \in types

Transfers == {"transfer.success", "transfer.failed", "transfer.reversed"}

\* Mutant: reversals and failures are dispatched as successes too.
AnySuccess == Transfers

SuccessTypes == {"transfer.success"}
FailureTypes == {"transfer.failed", "transfer.reversed"}

\* Mutant: only a missing transaction is left alone.
ReconcilableAgain(status) == status # "absent"

Reconcilable(status) == status \notin {"absent", "success", "failed"}

\* Mutant: the fee is kept when a transfer fails.
RefundLessFee(r) == Amount[ReqBill[r]]

Refund(r) == Charge(r)

\* No such transaction, or one already reconciled: only the event row stays.
IgnoreTransfer ==
  /\ Applying(Transfers)
  /\ ~Reconcilable(hook.status)
  /\ Finish(Recorded)
  /\ UNCHANGED <<balance, bill, txn>>

\* Both confirmations write an audit row of the user, whose foreign key waits
\* for a FOR UPDATE lock on the user's row.
ConfirmSuccess ==
  /\ Applying(SuccessTypes) /\ Reconcilable(hook.status)
  /\ LET r == hook.event.ref
         b == ReqBill[r]
     IN  /\ billLock[b] = None /\ userLock[BillOwner[b]] = None
         /\ bill' = [bill EXCEPT ![b] =
                       Flushed(@, hook.bill, [hook.bill EXCEPT !.status = "paid"])]
         /\ txn' = [txn EXCEPT ![r] = "success"]
  /\ Finish(Recorded)
  /\ UNCHANGED balance

\* A failed or reversed transfer: refund amount + fee and count a retry.
ConfirmFailure ==
  /\ Applying(FailureTypes) /\ Reconcilable(hook.status)
  /\ LET r == hook.event.ref
         b == ReqBill[r]
         u == BillOwner[b]
     IN  /\ billLock[b] = None /\ userLock[u] = None
         /\ balance' = [balance EXCEPT ![u] = @ + Refund(r)]
         /\ bill' = [bill EXCEPT ![b] = Flushed(@, hook.bill, AfterFailure(hook.bill))]
         /\ txn' = [txn EXCEPT ![r] = "failed"]
  /\ Finish(Recorded)

\* A credit without a transaction row is only audited.
OrphanCredit ==
  /\ Applying({"charge.success"}) /\ hook.status = "absent"
  /\ Finish(Recorded)
  /\ UNCHANGED <<balance, bill, txn>>

\* The early return of an applied credit does not commit the event row.
AlreadyCredited ==
  /\ Applying({"charge.success"}) /\ hook.status = "success"
  /\ Finish(seen)
  /\ UNCHANGED <<balance, bill, txn>>

ApplyCredit ==
  /\ Applying({"charge.success"}) /\ hook.status \notin {"absent", "success"}
  /\ LET c == hook.event.ref
         u == CreditUser[c]
     IN  /\ userLock[u] = None
         /\ balance' = [balance EXCEPT ![u] = @ + CreditAmount[c]]
         /\ txn' = [txn EXCEPT ![c] = "success"]
  /\ Finish(Recorded)
  /\ UNCHANGED bill

WebhookStep ==
  \/ RejectReplay \/ IgnoreTransfer \/ ConfirmSuccess \/ ConfirmFailure
  \/ OrphanCredit \/ AlreadyCredited \/ ApplyCredit
=============================================================================
