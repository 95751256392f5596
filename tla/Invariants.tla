----------------------------- MODULE Invariants -----------------------------
(***************************************************************************)
(* The inductive invariant behind the safety properties: who runs on the   *)
(* loop, who holds which row lock, what an open transaction and a webhook  *)
(* in progress know, and how debits, transfers and bills go together.      *)
(***************************************************************************)
EXTENDS Safety

OnLoop == {"insert", "lockBill", "lockUser", "refund", "committed", "inserted"}

\* Between two awaits a coroutine keeps the loop, and the webhook has no await.
LoopInv ==
  /\ \A r \in Reqs : pc[r] \in OnLoop => loop = r
  /\ hook.phase # "idle" => loop = Hook

\* A payout has the bill's lock from LockBill and the wallet's from Reserve.
LockInv ==
  \A r \in Reqs :
    /\ pc[r] = "lockUser" \/ Open(r) => billLock[ReqBill[r]] = r
    /\ Open(r) => userLock[ReqUser[r]] = r

\* An open payout passed the checks on values its session still holds, and
\* awaits the provider with the bill processing and the debit drafted.
DraftInv ==
  \A r \in Reqs :
    /\ Open(r) => MayReserve(r)
    /\ pc[r] \in {"resolve", "transfer"} => draft[r] = Reserved(r)
    /\ draft[r].debit # "absent" => Open(r)

\* What a webhook has read of its transaction is still so: only coroutines
\* write transactions, and it owns the loop.
HookInv ==
  hook.phase = "apply" =>
    /\ Announced(hook.event)
    /\ hook.status = txn[hook.event.ref]

\* A debit is there from its commit on; a crash may come before its answer.
DebitInv ==
  \A r \in Reqs :
    /\ pc[r] \in {"committed", "initiated"} => txn[r] # "absent"
    /\ txn[r] # "absent" => pc[r] \in {"committed", "initiated", "lost"}

Present(b) == bill[b].status # "absent"

\* The pcs of a request whose transaction has committed.
Stored == {"inserted", "created", "committed", "initiated"}

\* Who works on a bill has found its row; a row appears by the commit of the
\* request that inserts it, and no row goes.
PresentInv ==
  /\ \A c \in Cancels : cancel[c] = "write" => Present(CancelBill[c])
  /\ job.writing \in Bills => Present(job.writing)
  /\ \A r \in Reqs :
       IF Kind[r] = "pay"
         THEN /\ pc[r] # "insert"
              /\ pc[r] \in {"lockBill", "lockUser"} \cup Stored \/ Open(r)
                   => Present(ReqBill[r])
         ELSE /\ pc[r] \in Stored => Present(ReqBill[r])
              /\ Present(ReqBill[r]) => pc[r] \in Stored \cup {"lost"}

\* A debit's bill is in the database.
DebitBillInv ==
  \A r \in Reqs : txn[r] # "absent" => Present(ReqBill[r])

\* While a webhook of a stored debit is handled, its bill changes only by a
\* thread's cancellation or by the job.
HookRowInv ==
  hook.phase = "apply" /\ hook.event.ref \in Reqs /\ txn[hook.event.ref] # "absent" =>
    bill[ReqBill[hook.event.ref]].status \in {hook.bill.status, "cancelled", "pending"}

CoreInv ==
  /\ LoopInv /\ LockInv /\ DraftInv /\ HookInv
  /\ DebitInv /\ PresentInv /\ DebitBillInv

-----------------------------------------------------------------------------
(* With the scheduler's job at rest, the bill's status guards its debits.  *)

\* The status a committed debit leaves its bill in, unless a cancellation that
\* read the bill earlier overwrites it.
Guarded(status, b) ==
  \A r \in Reqs : ReqBill[r] = b =>
    /\ txn[r] = "processing" => status \in {"processing", "cancelled"}
    /\ txn[r] = "success" => status \in {"paid", "cancelled"}

Uncharged(b) == \A q \in Reqs : ReqBill[q] = b => ~Live(q)

Payable(status) == status \notin {"paid", "cancelled", "processing"}

\* The job that was never started does nothing.
JobAtRest == job = IdleJob

\* No debit of a bill is live while some request may still charge it.
ChargeInv ==
  \A r \in Reqs :
    \/ pc[r] \in {"lockBill", "lockUser"} /\ Payable(snap[r].bill.status)
    \/ Open(r)
    => Uncharged(ReqBill[r])

GuardInv ==
  /\ \A b \in Bills : Guarded(bill[b].status, b)
  /\ hook.phase = "apply" /\ hook.event.ref \in Reqs =>
       Guarded(hook.bill.status, ReqBill[hook.event.ref])

\* A debit's transaction is inserted as processing.
DebitStates == \A r \in Reqs : txn[r] \in {"absent", "processing", "success", "failed"}

BillInv == JobAtRest /\ DebitStates /\ ChargeInv /\ GuardInv /\ OneLiveDebit
=============================================================================
